---------------------------- MODULE Spec2Model ----------------------------
(***************************************************************************)
(* AutoAV: the investigation loop (cli/session_manager.py), the tool       *)
(* dispatcher (tools/tool_registry.py, llm/openai_client.py), the file     *)
(* inspector (inspector/file_inspector.py) and the permission manager      *)
(* (permissions/permission_manager.py).                                    *)
(*                                                                         *)
(* Every operation is one action.  An operation's inputs (the reasoning    *)
(* service's reply, the operator's answers, the outcome of each sudo       *)
(* subprocess) are drawn with \E from small sets.  Time is a clock in      *)
(* whole seconds that only Tick advances.                                  *)
(***************************************************************************)
EXTENDS Integers, Sequences, FiniteSets, TLC

VARIABLES
    sudo_granted,          \* PermissionManager.sudo_granted
    last_sudo_time,        \* PermissionManager.last_sudo_time: <<>> is None, <<t>> a time
    now,                   \* time.time(), in seconds
    ticks,                 \* number of Tick steps taken (bounded by MaxTicks)
    obs,                   \* what the last component operation did and returned
    conversation_history,  \* SessionManager.conversation_history
    investigation_steps,   \* SessionManager.investigation_steps
    iteration,             \* local 'iteration' of investigate
    pc,                    \* where the host process is
    outcome,               \* how the last investigate call ended
    calls,                 \* reasoning-service calls made by the running investigate
    response,              \* local 'response' of investigate: the last reply received
    env,                   \* what the operator and the subprocesses did in that pass
    session,               \* number of investigate calls started so far
    tasks                  \* the coroutines inside _request_sudo_access, each with its position

pmVars == <<sudo_granted, last_sudo_time, now, ticks, obs>>
smVars == <<conversation_history, investigation_steps, iteration, pc, outcome,
            calls, response, env, session, tasks>>
vars == <<sudo_granted, last_sudo_time, now, ticks, obs, conversation_history,
          investigation_steps, iteration, pc, outcome, calls, response,
          env, session, tasks>>

---------------------------------------------------------------------------
(* Bounds of the model *)

MaxTicks == 3
MaxSessions == 2
MaxToolCalls == 2
MaxSteps == 2
MaxTasks == 2
MaxLedger == 3

(* Program constants *)

max_iterations == 10
sudo_timeout == 300
max_file_size == 10485760

(* One Tick advances the clock by one of these amounts. *)
TickSteps == {1, 299}

---------------------------------------------------------------------------
(* The file system the inspection operations look at.  A path string is    *)
(* [abs, segs]: segs are the components between slashes, so a trailing     *)
(* slash leaves an empty last component.                                   *)

P(abs, segs) == [abs |-> abs, segs |-> segs]

UsrBinLs      == P(TRUE, <<"usr", "bin", "ls">>)
UsrBinSlash   == P(TRUE, <<"usr", "bin", "">>)
RelUsrBinLs   == P(FALSE, <<"..", "..", "usr", "bin", "ls">>)
LinkToLs      == P(TRUE, <<"Users", "me", "link">>)
LibrarySecret == P(TRUE, <<"Library", "Keychains", "secret.db">>)
HomeNotes     == P(TRUE, <<"Users", "me", "notes.txt">>)
HomeBig       == P(TRUE, <<"Users", "me", "big.log">>)
HomeImage     == P(TRUE, <<"Users", "me", "photo.png">>)
HomeDir       == P(TRUE, <<"Users", "me">>)
OtherPrivate  == P(TRUE, <<"Users", "other", "private.txt">>)
LibraryMixed  == P(TRUE, <<"Library", "Logs", "mixed.log">>)
Missing       == P(TRUE, <<"tmp", "missing">>)

Paths == {UsrBinLs, UsrBinSlash, RelUsrBinLs, LinkToLs, LibrarySecret, HomeNotes,
          HomeBig, HomeImage, HomeDir, OtherPrivate, Missing}

cwd == <<"Users", "me">>

IsSymlink(names) == names = <<"Users", "me", "link">>
LinkTarget(names) == <<"usr", "bin", "ls">>

ButLast(s) == IF s = <<>> THEN <<>> ELSE SubSeq(s, 1, Len(s) - 1)

(* Path(p).resolve(): the absolute, canonical form, as the sequence of its *)
(* component names.  Relative paths start at the working directory; "" and *)
(* "." are dropped, ".." removes a component, a symlink is followed.       *)
RECURSIVE ResolveFrom(_, _)
ResolveFrom(acc, segs) ==
    IF segs = <<>> THEN acc
    ELSE LET s == Head(segs)
             nxt == IF s = "" \/ s = "." THEN acc
                    ELSE IF s = ".." THEN ButLast(acc)
                    ELSE IF IsSymlink(Append(acc, s)) THEN LinkTarget(Append(acc, s))
                    ELSE Append(acc, s)
         IN  ResolveFrom(nxt, Tail(segs))

Resolve(p) == ResolveFrom(IF p.abs THEN <<>> ELSE cwd, p.segs)

(* pathlib's Path(str).parts of an absolute path: the root "/" and then    *)
(* the component names, none of which contains a slash.                    *)
Parts(names) == <<"/">> \o names

Elems(s) == {s[i] : i \in 1..Len(s)}

Exists(names) ==
    names \in {<<"usr", "bin", "ls">>, <<"usr", "bin">>, <<"usr">>,
               <<"Library", "Keychains", "secret.db">>,
               <<"Library", "Logs", "mixed.log">>,
               <<"Users", "me", "notes.txt">>, <<"Users", "me", "big.log">>,
               <<"Users", "me", "photo.png">>, <<"Users", "me">>,
               <<"Users", "other", "private.txt">>}

IsDir(names) == names \in {<<"usr", "bin">>, <<"usr">>, <<"Users", "me">>}
IsFile(names) == Exists(names) /\ ~IsDir(names)

(* os.access(path, os.R_OK) for the user running the program *)
OsReadable(names) ==
    Exists(names)
    /\ names \notin {<<"Library", "Keychains", "secret.db">>,
                     <<"Library", "Logs", "mixed.log">>,
                     <<"Users", "other", "private.txt">>}

(* os.access(path, os.W_OK) *)
OsWritable(names) ==
    names \in {<<"Users", "me", "notes.txt">>, <<"Users", "me", "big.log">>,
               <<"Users", "me", "photo.png">>, <<"Users", "me">>}

(* os.access(path, os.X_OK) *)
OsExecutable(names) ==
    names \in {<<"usr", "bin", "ls">>, <<"usr", "bin">>, <<"usr">>, <<"Users", "me">>}

StSize(names) ==
    IF names = <<"Users", "me", "big.log">> THEN max_file_size + 1
    ELSE IF names = <<"Users", "me", "notes.txt">> THEN 2048
    ELSE 4096

MimeType(names) ==
    IF names \in {<<"Users", "me", "notes.txt">>, <<"Users", "me", "big.log">>,
                  <<"Users", "other", "private.txt">>}
    THEN "text/plain"
    ELSE IF names = <<"Users", "me", "photo.png">> THEN "image/png"
    ELSE "application/octet-stream"

(* The type libmagic gives the first 1024 characters of the file: that of  *)
(* the file, except for mixed.log, a binary file that starts with more     *)
(* than 1024 characters of text                                            *)
MimeOfHead(names) ==
    IF names = <<"Library", "Logs", "mixed.log">> THEN "text/csv" ELSE MimeType(names)

---------------------------------------------------------------------------
(* What the operator and the sudo subprocesses do during one operation.    *)
(* answers: the operator's answers to the successive Confirm.ask prompts   *)
(* (no answer left: the default, False).  test_n / test_i: the outcome of  *)
(* 'sudo -n echo test' and of the interactive 'sudo echo test'.  cmd_n /   *)
(* cmd_i: the outcome of 'sudo -n <command>' and of 'sudo <command>'.      *)
(* scan: what the ClamAV installation and the clamscan subprocess do.      *)
(* A failed subprocess is named by what its stderr says.                   *)

Stderrs == {"password_required", "sudo_cmd_not_found", "cmd_error"}

(* A subprocess that does not end by itself *)
Hangs == "hangs"

(* What 'raised' holds for an operation that waits for ever *)
Blocked == "<never returns>"

(* ClamAV: not installed, no signature database, or how clamscan ends *)
Scans == {"no_clamscan", "no_database", "rc0", "rc1", "rc2", "timeout", "exc"}

Env(answers, test_n, test_i, cmd_n, cmd_i, scan) ==
    [answers |-> answers, test_n |-> test_n, test_i |-> test_i,
     cmd_n |-> cmd_n, cmd_i |-> cmd_i, scan |-> scan, silent |-> FALSE]

(* The same with an operator who never answers the approval prompt:        *)
(* Confirm.ask reads the terminal and has no timeout.  The prompt is       *)
(* logged like a refused one, and marked pending.                          *)
Silent(e) == [e EXCEPT !.silent = TRUE, !.answers = <<>>]

(* 'password' in stderr_text or 'sudo' in stderr_text:                     *)
(* "sudo: a password is required" has both words, "sudo: x: command not    *)
(* found" has 'sudo', "cat: x: No such file or directory" has neither.     *)
HasElevationMarker(stderr) ==
    stderr = "password_required" \/ stderr \in {"password_required", "sudo_cmd_not_found"}

(* A result text is the sequence of the pieces its f-string is built from: *)
(* the leading literal first, then what is interpolated.  A text starts    *)
(* with "Error" iff its first piece does.                                  *)
ErrorLiterals ==
    {"Error: Sudo access denied by user", "Error: ", "Error: Unknown tool '",
     "Error executing ", "Error: File '", "Error: '", "Error: File size (",
     "Error: Permission denied reading '", "Error: Permission denied scanning '",
     "Error: Permission denied accessing '", "Error: Permission denied searching '",
     "Error: Permission denied listing '", "Error: Directory '",
     "Error: Could not get file size: ", "Error: Could not read file: ",
     "Error: ClamAV not available for sudo scanning",
     "Error scanning file with sudo: ",
     "Error: ClamAV not found. Please install ClamAV first:",
     "Error: ClamAV database not found. Please update virus definitions:",
     "Error during scan: ", "Error: Scan timed out", "Error running ClamAV scan: "}

(* result.startswith("Error") *)
StartsWithError(text) == text # <<>> /\ Head(text) \in ErrorLiterals

---------------------------------------------------------------------------
(* PermissionManager.  An operation works on a record st: the grant        *)
(* (granted, last), the operator's remaining answers, and a log of what    *)
(* the operation did: the answers it asked for (prompts), the self-tests   *)
(* it ran (tests), the elevated commands it started (started) and the      *)
(* inspection operations it entered (invoked); pending says that its last  *)
(* prompt has had no answer.                                               *)

OpState(granted, last, answers) ==
    [granted |-> granted, last |-> last, answers |-> answers,
     prompts |-> <<>>, tests |-> <<>>, started |-> <<>>, invoked |-> <<>>,
     pending |-> FALSE]

(* Python truth value of last_sudo_time: None and 0 are false *)
Truthy(last) == last # <<>> /\ last[1] # 0

(* A negotiation that trusts the flag whatever the age of the grant *)
RequestHasSudoFlagOnly(st, t) == st.granted

(* A grant that is still active when exactly sudo_timeout has elapsed *)
RequestHasSudoInclusive(st, t) ==
    st.granted /\ Truthy(st.last) /\ t - st.last[1] <= sudo_timeout

RequestHasSudo(st, t) ==
    st.granted /\ Truthy(st.last) /\ t - st.last[1] < sudo_timeout

(* A fast path that looks at the flag and the timestamp but not the age *)
ExecHasSudoNoExpiry(st, t) ==
    st.granted /\ Truthy(st.last)

ExecHasSudo(st, t) ==
    st.granted /\ Truthy(st.last) /\ t - st.last[1] < sudo_timeout

SummarySudoActive(st, t) ==
    st.granted /\ Truthy(st.last) /\ t - st.last[1] < sudo_timeout

TestSudoAccess(e) ==
    IF e.test_n = "exc" THEN FALSE
    ELSE IF e.test_n = "rc0" THEN TRUE
    ELSE IF HasElevationMarker(e.test_n) THEN e.test_i = "rc0"
    ELSE FALSE

Ask(st) ==
    LET granted == IF st.answers = <<>> THEN FALSE ELSE Head(st.answers)
    IN  [st EXCEPT !.answers = IF @ = <<>> THEN <<>> ELSE Tail(@),
                   !.prompts = Append(@, granted)]

(* A negotiation that records the grant before the self-test and leaves it *)
(* in place when the test fails                                            *)
RequestSudoAccessKeepsPending(st, t, e) ==
    IF RequestHasSudo(st, t) THEN [st |-> st, ret |-> TRUE]
    ELSE IF e.silent THEN [st |-> [Ask(st) EXCEPT !.pending = TRUE], ret |-> FALSE]
    ELSE LET asked == Ask(st)
             granted == asked.prompts[Len(asked.prompts)]
         IN  IF granted
             THEN LET ok == TestSudoAccess(e)
                      tested == [asked EXCEPT !.tests =
                                     Append(@, [n |-> e.test_n, i |-> e.test_i, ok |-> ok])]
                  IN  [st |-> [tested EXCEPT !.granted = TRUE, !.last = <<t>>],
                       ret |-> ok]
             ELSE [st |-> asked, ret |-> FALSE]

(* A negotiation that records the grant on approval, whatever the self-test *)
RequestSudoAccessUntested(st, t, e) ==
    IF RequestHasSudo(st, t) THEN [st |-> st, ret |-> TRUE]
    ELSE IF e.silent THEN [st |-> [Ask(st) EXCEPT !.pending = TRUE], ret |-> FALSE]
    ELSE LET asked == Ask(st)
             granted == asked.prompts[Len(asked.prompts)]
         IN  IF granted
             THEN LET ok == TestSudoAccess(e)
                      tested == [asked EXCEPT !.tests =
                                     Append(@, [n |-> e.test_n, i |-> e.test_i, ok |-> ok])]
                  IN  [st |-> [tested EXCEPT !.granted = TRUE, !.last = <<t>>],
                       ret |-> TRUE]
             ELSE [st |-> asked, ret |-> FALSE]

RequestSudoAccess(st, t, e) ==
    IF RequestHasSudo(st, t) THEN [st |-> st, ret |-> TRUE]
    ELSE IF e.silent THEN [st |-> [Ask(st) EXCEPT !.pending = TRUE], ret |-> FALSE]
    ELSE LET asked == Ask(st)
             granted == asked.prompts[Len(asked.prompts)]
         IN  IF granted
             THEN LET ok == TestSudoAccess(e)
                      tested == [asked EXCEPT !.tests =
                                     Append(@, [n |-> e.test_n, i |-> e.test_i, ok |-> ok])]
                  IN  IF ok
                      THEN [st |-> [tested EXCEPT !.granted = TRUE, !.last = <<t>>],
                            ret |-> TRUE]
                      ELSE [st |-> tested, ret |-> FALSE]
             ELSE [st |-> asked, ret |-> FALSE]

IsRestrictedPath(names) ==
    \E restricted_dir \in {"/System", "/Library", "/bin", "/sbin", "/usr"} :
        restricted_dir \in Elems(Parts(names))

(* can_read_file and can_read_directory once the path is resolved *)
CanReadResolved(st, t, e, path) ==
    IF IsRestrictedPath(path) THEN RequestSudoAccess(st, t, e)
    ELSE [st |-> st, ret |-> OsReadable(path)]

CanReadFile(st, t, e, file_path) == CanReadResolved(st, t, e, Resolve(file_path))

CanReadDirectory(st, t, e, dir_path) == CanReadResolved(st, t, e, Resolve(dir_path))

(* A write check that asked the operating system, as the read checks do *)
CanWriteFileByOsAccess(file_path) == OsWritable(Resolve(file_path))

CanWriteFile(file_path) == FALSE

CanExecuteFile(file_path) == FALSE

(* The timeout an elevated subprocess is waited for with: 30 seconds for   *)
(* subprocess.run(['sudo'] + command, timeout=30), none for               *)
(* 'await process.communicate()'                                           *)
TimeoutOf(mode) == IF mode = "sudo" THEN <<30>> ELSE <<>>

(* An elevated subprocess is started: logged with the grant at that time *)
Start(st, mode, cmd, t) ==
    [st EXCEPT !.started = Append(@, [mode |-> mode, cmd |-> cmd, at |-> t,
                                      granted |-> st.granted, last |-> st.last,
                                      timeout |-> TimeoutOf(mode)])]

(* An operation whose approval prompt is still unanswered (pending) has     *)
(* not returned                                                            *)
Ret(st, text, raised) ==
    IF st.pending THEN [st |-> st, text |-> <<>>, raised |-> Blocked]
    ELSE [st |-> st, text |-> text, raised |-> raised]

(* 'sudo <command>', after 'sudo -n <command>' asked for a credential *)
SudoInteractive(s2, e) ==
    IF e.cmd_i = "timeout" THEN Ret(s2, <<>>, "TimeoutExpired")
    ELSE IF e.cmd_i = "rc0" THEN Ret(s2, <<"<stdout>">>, "")
    ELSE Ret(s2, <<"Error: ", "<stderr>">>, "")

(* 'sudo -n <command>' has run *)
SudoNonInteractive(s1, t, e, cmd) ==
    IF e.cmd_n = Hangs THEN Ret(s1, <<>>, Blocked)
    ELSE IF e.cmd_n = "rc0" THEN Ret(s1, <<"<stdout>">>, "")
    ELSE IF HasElevationMarker(e.cmd_n) THEN SudoInteractive(Start(s1, "sudo", cmd, t), e)
    ELSE Ret(s1, <<"Error: ", "<stderr>">>, "")

(* An elevated command that, when refused, asks the operator once more *)
AfterRequestAsksAgain(r, t, e, cmd) ==
    IF r.ret THEN SudoNonInteractive(Start(r.st, "sudo -n", cmd, t), t, e, cmd)
    ELSE LET again == RequestSudoAccess(r.st, t, e)
         IN  IF again.ret
             THEN SudoNonInteractive(Start(again.st, "sudo -n", cmd, t), t, e, cmd)
             ELSE Ret(again.st, <<"Error: Sudo access denied by user">>, "")

(* execute_sudo_command once _request_sudo_access has returned r *)
AfterRequest(r, t, e, cmd) ==
    IF r.ret THEN SudoNonInteractive(Start(r.st, "sudo -n", cmd, t), t, e, cmd)
    ELSE Ret(r.st, <<"Error: Sudo access denied by user">>, "")

(* An elevated command that, run on an active grant, renews its timestamp *)
ExecuteSudoCommandRenewing(st, t, e, cmd) ==
    IF ExecHasSudo(st, t)
    THEN IF e.cmd_n = Hangs
         THEN Ret(Start([st EXCEPT !.last = <<t>>], "sudo -n", cmd, t), <<>>, Blocked)
         ELSE Ret(Start([st EXCEPT !.last = <<t>>], "sudo -n", cmd, t),
                  IF e.cmd_n = "rc0" THEN <<"<stdout>">> ELSE <<"<stdout of failed command>">>,
                  "")
    ELSE AfterRequest(RequestSudoAccess(st, t, e), t, e, cmd)

ExecuteSudoCommand(st, t, e, cmd) ==
    IF ExecHasSudo(st, t)
    THEN IF e.cmd_n = Hangs THEN Ret(Start(st, "sudo -n", cmd, t), <<>>, Blocked)
         ELSE Ret(Start(st, "sudo -n", cmd, t),
                  IF e.cmd_n = "rc0" THEN <<"<stdout>">> ELSE <<"<stdout of failed command>">>,
                  "")
    ELSE AfterRequest(RequestSudoAccess(st, t, e), t, e, cmd)

---------------------------------------------------------------------------
(* ClamAVScanner *)

IsAvailable(e) == e.scan \notin {"no_clamscan", "no_database"}

ScannerScanFile(e) ==
    IF e.scan = "no_clamscan"
    THEN <<"Error: ClamAV not found. Please install ClamAV first:">>
    ELSE IF e.scan = "no_database"
    THEN <<"Error: ClamAV database not found. Please update virus definitions:">>
    ELSE IF e.scan = "exc" THEN <<"Error running ClamAV scan: ", "<exception>">>
    ELSE IF e.scan = "timeout" THEN <<"Error: Scan timed out">>
    ELSE IF e.scan = "rc0" THEN <<"Status: Clean (no threats detected)">>
    ELSE IF e.scan = "rc1" THEN <<"Status: INFECTED", "<stdout>">>
    ELSE <<"Error during scan: ", "<stderr>">>

---------------------------------------------------------------------------
(* FileInspector *)

Enter(st, op) == [st EXCEPT !.invoked = Append(@, op)]

(* str(file_path) of a resolved path, as the path string it is *)
Str(names) == P(TRUE, names)

IsTextMime(mime_type) ==
    mime_type \in {"text/plain", "text/csv"} \/ mime_type \in {"application/json", "application/xml"}

(* A classifier of the inspector that goes by the first component *)
InspectorIsRestrictedPathByPrefix(names) ==
    names # <<>> /\ names[1] \in {"System", "Library", "bin", "sbin", "usr"}

InspectorIsRestrictedPath(names) ==
    \E restricted_dir \in {"/System", "/Library", "/bin", "/sbin", "/usr"} :
        restricted_dir \in Elems(Parts(names))

(* magic.from_buffer on what 'cat' printed: the file's type when it        *)
(* printed the file, that of an empty buffer when it failed                *)
MimeFromBuffer(content, file_path) ==
    IF content = <<"<stdout>">> THEN MimeOfHead(file_path) ELSE "application/x-empty"

(* _read_file_with_sudo once 'cat' has returned *)
AfterCat(content_result, file_path) ==
    IF content_result.raised # "" THEN content_result
    ELSE IF StartsWithError(content_result.text)
    THEN Ret(content_result.st, <<"Error: Could not read file: ">> \o content_result.text, "")
    ELSE IF IsTextMime(MimeFromBuffer(content_result.text, file_path))
    THEN Ret(content_result.st, <<"File: ", "<content>">>, "")
    ELSE Ret(content_result.st, <<"File: ", "<type and size>">>, "")

(* _read_file_with_sudo once 'stat' has returned: int() of anything but    *)
(* the printed size raises                                                 *)
AfterStat(size_result, t, e, file_path, max_size) ==
    IF size_result.raised # "" THEN size_result
    ELSE IF StartsWithError(size_result.text)
    THEN Ret(size_result.st, <<"Error: Could not get file size: ">> \o size_result.text, "")
    ELSE IF size_result.text # <<"<stdout>">> THEN Ret(size_result.st, <<>>, "ValueError")
    ELSE IF StSize(file_path) > max_size
    THEN Ret(size_result.st, <<"Error: File size (", "<size>">>, "")
    ELSE AfterCat(ExecuteSudoCommand(size_result.st, t, e, "cat"), file_path)

ReadFileWithSudo(st, t, e, file_path, max_size) ==
    AfterStat(ExecuteSudoCommand(st, t, e, "stat"), t, e, file_path, max_size)

(* read_file once can_read_file has returned; reading a file the user may  *)
(* not read raises                                                         *)
ReadChecked(can, t, e, file_path, max_size) ==
    IF ~can.ret
    THEN IF InspectorIsRestrictedPath(file_path)
         THEN ReadFileWithSudo(can.st, t, e, file_path, max_size)
         ELSE Ret(can.st, <<"Error: Permission denied reading '", "<path>">>, "")
    ELSE IF ~OsReadable(file_path) THEN Ret(can.st, <<>>, "PermissionError")
    ELSE IF IsTextMime(MimeType(file_path)) THEN Ret(can.st, <<"File: ", "<content>">>, "")
    ELSE Ret(can.st, <<"File: ", "<type, size and SHA256>">>, "")

(* A read that does not look at the size before reading *)
ReadResolvedUncapped(st, t, e, file_path, max_size) ==
    IF ~Exists(file_path) THEN Ret(st, <<"Error: File '", "<path>">>, "")
    ELSE IF ~IsFile(file_path) THEN Ret(st, <<"Error: '", "<path>">>, "")
    ELSE ReadChecked(CanReadFile(st, t, e, Str(file_path)), t, e, file_path, max_size)

ReadResolved(st, t, e, file_path, max_size) ==
    IF ~Exists(file_path) THEN Ret(st, <<"Error: File '", "<path>">>, "")
    ELSE IF ~IsFile(file_path) THEN Ret(st, <<"Error: '", "<path>">>, "")
    ELSE IF StSize(file_path) > max_size THEN Ret(st, <<"Error: File size (", "<size>">>, "")
    ELSE ReadChecked(CanReadFile(st, t, e, Str(file_path)), t, e, file_path, max_size)

ReadFile(st, t, e, path, max_size) ==
    ReadResolved(Enter(st, "read_file"), t, e, Resolve(path), max_size)

(* read_file with a max_size that is a string: the file is looked up and   *)
(* measured, then 'file_size > max_size' raises                            *)
ReadFileSizeNotInt(st, path) ==
    IF ~Exists(Resolve(path)) THEN Ret(Enter(st, "read_file"), <<"Error: File '", "<path>">>, "")
    ELSE IF ~IsFile(Resolve(path)) THEN Ret(Enter(st, "read_file"), <<"Error: '", "<path>">>, "")
    ELSE Ret(Enter(st, "read_file"), <<>>, "TypeError")

(* _scan_file_with_sudo once clamscan has returned *)
AfterSudoScan(scan_result) ==
    IF scan_result.raised # "" THEN scan_result
    ELSE IF StartsWithError(scan_result.text)
    THEN Ret(scan_result.st, <<"Error scanning file with sudo: ">> \o scan_result.text, "")
    ELSE Ret(scan_result.st, <<"ClamAV Scan Results for: ">> \o scan_result.text, "")

ScanFileWithSudo(st, t, e, file_path) ==
    IF ~IsAvailable(e)
    THEN Ret(st, <<"Error: ClamAV not available for sudo scanning">>, "")
    ELSE AfterSudoScan(ExecuteSudoCommand(st, t, e, "clamscan"))

(* scan_file once can_read_file has returned *)
ScanChecked(can, t, e, file_path) ==
    IF ~can.ret
    THEN IF InspectorIsRestrictedPath(file_path)
         THEN ScanFileWithSudo(can.st, t, e, file_path)
         ELSE Ret(can.st, <<"Error: Permission denied scanning '", "<path>">>, "")
    ELSE Ret(Enter(can.st, "clamscan"),
             <<"ClamAV Scan Results for: ">> \o ScannerScanFile(e), "")

(* A scan that asks for permission before it looks at the path *)
ScanResolvedUnchecked(st, t, e, file_path) ==
    ScanChecked(CanReadFile(st, t, e, Str(file_path)), t, e, file_path)

ScanResolved(st, t, e, file_path) ==
    IF ~Exists(file_path) THEN Ret(st, <<"Error: File '", "<path>">>, "")
    ELSE IF ~IsFile(file_path) THEN Ret(st, <<"Error: '", "<path>">>, "")
    ELSE ScanChecked(CanReadFile(st, t, e, Str(file_path)), t, e, file_path)

ScanFile(st, t, e, path) == ScanResolved(Enter(st, "scan_file"), t, e, Resolve(path))

(* An operation that reads the target itself once the permission check     *)
(* has returned: denied is its permission error, done its result           *)
ReadsDirectly(can, target, denied, done) ==
    IF ~can.ret THEN Ret(can.st, denied, "")
    ELSE IF ~OsReadable(target) THEN Ret(can.st, <<>>, "PermissionError")
    ELSE Ret(can.st, done, "")

InfoResolved(st, t, e, file_path) ==
    IF ~Exists(file_path) THEN Ret(st, <<"Error: File '", "<path>">>, "")
    ELSE ReadsDirectly(CanReadFile(st, t, e, Str(file_path)), file_path,
                       <<"Error: Permission denied accessing '", "<path>">>,
                       <<"File Information: ", "<metadata>">>)

GetFileInfo(st, t, e, path) == InfoResolved(Enter(st, "get_file_info"), t, e, Resolve(path))

ListResolved(st, t, e, dir_path) ==
    IF ~Exists(dir_path) THEN Ret(st, <<"Error: Directory '", "<path>">>, "")
    ELSE IF ~IsDir(dir_path) THEN Ret(st, <<"Error: '", "<path>">>, "")
    ELSE ReadsDirectly(CanReadDirectory(st, t, e, Str(dir_path)), dir_path,
                       <<"Error: Permission denied listing '", "<path>">>,
                       <<"Directory contents of '", "<entries>">>)

ListDirectory(st, t, e, path) ==
    ListResolved(Enter(st, "list_directory"), t, e, Resolve(path))

FindResolved(st, t, e, search_path) ==
    IF ~Exists(search_path) THEN Ret(st, <<"Error: Directory '", "<path>">>, "")
    ELSE IF ~IsDir(search_path) THEN Ret(st, <<"Error: '", "<path>">>, "")
    ELSE ReadsDirectly(CanReadDirectory(st, t, e, Str(search_path)), search_path,
                       <<"Error: Permission denied searching '", "<path>">>,
                       <<"Found ", "<files>">>)

(* directory = None searches the home directory *)
FindFiles(st, t, e, directory) ==
    FindResolved(Enter(st, "find_files"), t, e, Resolve(directory))

(* A process listing that asks the operator for elevation first *)
ListProcessesAsking(st) ==
    Ret(Ask(Enter(st, "list_processes")), <<"Found ", "<processes>">>, "")

ListProcesses(st) == Ret(Enter(st, "list_processes"), <<"Found ", "<processes>">>, "")

CheckBrowserExtensions(st) ==
    Ret(Enter(st, "check_browser_extensions"), <<"Browser Extensions Analysis:">>, "")

CheckStartupItems(st) ==
    Ret(Enter(st, "check_startup_items"), <<"Startup Items Analysis:">>, "")

GetNetworkConnections(st) ==
    Ret(Enter(st, "get_network_connections"), <<"Found ", "<connections>">>, "")

---------------------------------------------------------------------------
(* ToolRegistry and OpenAIClient.execute_tool_call *)

tools == {"list_processes", "read_file", "scan_file", "find_files", "get_file_info",
          "list_directory", "check_browser_extensions", "check_startup_items",
          "get_network_connections"}

(* Names the reasoning service may send: the registered ones and others *)
ToolNames == tools \cup {"READ_FILE", "Read_File", " read_file", "read_file ",
                         "_read_file", "execute_command", ""}

NoPath == P(TRUE, <<>>)

(* The arguments mapping of a request: its keys, the value of its 'path'   *)
(* (or 'directory') entry when it has one, and the keys whose value is not *)
(* of the type the tool definition declares (show_hidden: "no",            *)
(* max_size: "big").                                                       *)
ArgsTyped(keys, path, mistyped) == [keys |-> keys, path |-> path, mistyped |-> mistyped]

Args(keys, path) == ArgsTyped(keys, path, {})

ToolPaths == {UsrBinLs, LibrarySecret, HomeNotes, HomeBig, HomeImage, OtherPrivate,
              Missing, HomeDir}

(* ToolCall(id, function, arguments): function is the dict                 *)
(* {"name": ..., "arguments": ...} that get_response builds.               *)
ToolCall(id, name, arguments) ==
    [id |-> id, function |-> [name |-> name, arguments |-> arguments],
     arguments |-> arguments]

(* A ToolCall as a client other than get_response may hand it to           *)
(* investigate: its function answers function.name as well as              *)
(* function["name"]                                                        *)
NamedToolCall(id, name, arguments) ==
    [id |-> id,
     function |-> [name |-> name, arguments |-> arguments, name_attr |-> TRUE],
     arguments |-> arguments]

(* The requests tried: every name without arguments, the path-bearing      *)
(* tools and some other names with a path, find_files with its pattern.    *)
Requests ==
    {[name |-> n, arguments |-> Args({}, NoPath)] : n \in ToolNames}
    \cup {[name |-> n, arguments |-> Args({"path"}, p)] :
              n \in {"read_file", "scan_file"}, p \in ToolPaths}
    \cup {[name |-> n, arguments |-> Args({"path"}, HomeNotes)] :
              n \in {" read_file", "READ_FILE", "list_processes"}}
    \cup {[name |-> n, arguments |-> Args({"path"}, p)] :
              n \in {"get_file_info", "list_directory"},
              p \in {LibrarySecret, HomeDir, OtherPrivate}}
    \cup {[name |-> "find_files", arguments |-> Args({"pattern"}, NoPath)],
          [name |-> "find_files", arguments |-> Args({"pattern", "directory"}, HomeDir)],
          [name |-> "find_files", arguments |-> Args({"pattern", "directory"}, Missing)],
          [name |-> "list_processes", arguments |-> Args({"filter"}, NoPath)],
          [name |-> "list_directory",
           arguments |-> ArgsTyped({"path", "show_hidden"}, HomeDir, {"show_hidden"})],
          [name |-> "read_file",
           arguments |-> ArgsTyped({"path", "max_size"}, HomeNotes, {"max_size"})],
          [name |-> "read_file",
           arguments |-> ArgsTyped({"path", "max_size"}, Missing, {"max_size"})]}

Required(tool_name) ==
    IF tool_name \in {"read_file", "scan_file", "get_file_info", "list_directory"}
    THEN {"path"}
    ELSE IF tool_name = "find_files" THEN {"pattern"}
    ELSE {}

Optional(tool_name) ==
    IF tool_name = "read_file" THEN {"max_size"}
    ELSE IF tool_name = "find_files" THEN {"directory", "max_results"}
    ELSE IF tool_name = "list_directory" THEN {"show_hidden"}
    ELSE IF tool_name \in {"list_processes", "get_network_connections"} THEN {"filter"}
    ELSE IF tool_name = "check_browser_extensions" THEN {"browser"}
    ELSE {}

(* Calling a tool function with the arguments as keywords binds: every    *)
(* required parameter is given and no unknown one.                        *)
Binds(tool_name, arguments) ==
    /\ Required(tool_name) \subseteq arguments.keys
    /\ arguments.keys \subseteq Required(tool_name) \cup Optional(tool_name)

(* A registry that looked names up after tool_name.strip().lower() *)
ToolKeyNormalised(tool_name) ==
    IF tool_name \in {"READ_FILE", "Read_File", " read_file", "read_file "}
    THEN "read_file" ELSE tool_name

(* the key execute_tool looks up in self.tools *)
ToolKey(tool_name) == tool_name

ExecuteTool(st, t, e, tool_name, arguments) ==
    LET key == ToolKey(tool_name)
    IN  IF key \notin tools THEN Ret(st, <<"Error: Unknown tool '", tool_name>>, "")
        ELSE IF ~Binds(key, arguments) THEN Ret(st, <<>>, "TypeError")
        ELSE IF key = "list_processes" THEN ListProcesses(st)
        ELSE IF key = "read_file"
        THEN IF "max_size" \in arguments.mistyped
             THEN ReadFileSizeNotInt(st, arguments.path)
             ELSE ReadFile(st, t, e, arguments.path, max_file_size)
        ELSE IF key = "scan_file" THEN ScanFile(st, t, e, arguments.path)
        ELSE IF key = "find_files"
        THEN FindFiles(st, t, e, IF "directory" \in arguments.keys
                                 THEN arguments.path ELSE HomeDir)
        ELSE IF key = "get_file_info" THEN GetFileInfo(st, t, e, arguments.path)
        ELSE IF key = "list_directory" THEN ListDirectory(st, t, e, arguments.path)
        ELSE IF key = "check_browser_extensions" THEN CheckBrowserExtensions(st)
        ELSE IF key = "check_startup_items" THEN CheckStartupItems(st)
        ELSE GetNetworkConnections(st)

(* except Exception as e: return f"Error executing {name}: {str(e)}" *)
Caught(result, tool_call) ==
    IF result.raised = Blocked THEN result
    ELSE IF result.raised # ""
    THEN Ret(result.st, <<"Error executing ", tool_call.function.name, result.raised>>, "")
    ELSE result

(* OpenAIClient.execute_tool_call *)
ExecuteToolCall(st, t, e, tool_call) ==
    Caught(ExecuteTool(st, t, e, tool_call.function.name, tool_call.arguments), tool_call)

---------------------------------------------------------------------------
(* The components called on their own, as the test scripts call them.      *)
(* obs records the call that has just returned: its result, its log and    *)
(* the grant before it.  When time passes nothing has just returned.       *)

(* A text investigate returns, as what it holds: its first line, the rows  *)
(* of its steps table (tool and status), the reply text it quotes          *)
ReportText(head, rows, analysis) == [head |-> head, rows |-> rows, analysis |-> analysis]

NoReport == ReportText("", <<>>, "")

(* A call of api_execute_command: the module it is taken from, its         *)
(* arguments (command_args: <<>> is None, <<a>> the list a) and the         *)
(* subprocess.run calls it made, each with its argument list and whether   *)
(* a shell was asked for                                                   *)
ApiCall(module, command, command_args, runs) ==
    [module |-> module, command |-> command, command_args |-> command_args, runs |-> runs]

NoApi == ApiCall("", "", <<>>, <<>>)

(* Nobody answers and every subprocess succeeds *)
NoEnv == Env(<<>>, "rc0", "rc0", "rc0", "rc0", "rc0")

Obs(op, name, path, st, retb, text, raised) ==
    [op |-> op, name |-> name, path |-> path, keys |-> {}, mistyped |-> {},
     max_size |-> 0, ledger |-> <<>>, report |-> NoReport, env |-> NoEnv,
     api |-> NoApi, retb |-> retb, text |-> text,
     raised |-> raised, pending |-> st.pending,
     prompts |-> st.prompts, tests |-> st.tests,
     started |-> st.started, invoked |-> st.invoked,
     granted_before |-> sudo_granted, last_before |-> last_sudo_time]

(* The same for a tool call, with the arguments it was given *)
ToolObs(name, arguments, st, text, raised) ==
    [Obs("execute_tool_call", name, arguments.path, st, FALSE, text, raised)
        EXCEPT !.keys = arguments.keys, !.mistyped = arguments.mistyped]

(* The same for an elevated command, with what the operator and the sudo   *)
(* subprocesses did during it                                              *)
SudoObs(e, st, text, raised) ==
    [Obs("execute_sudo_command", "", NoPath, st, FALSE, text, raised) EXCEPT !.env = e]

Idle == OpState(FALSE, <<>>, <<>>)

NoObs ==
    [op |-> "none", name |-> "", path |-> NoPath, keys |-> {}, mistyped |-> {},
     max_size |-> 0, ledger |-> <<>>, report |-> NoReport, env |-> NoEnv,
     api |-> NoApi, retb |-> FALSE, text |-> <<>>,
     raised |-> "", pending |-> FALSE,
     prompts |-> <<>>, tests |-> <<>>, started |-> <<>>,
     invoked |-> <<>>, granted_before |-> FALSE, last_before |-> <<>>]

Here(e) == OpState(sudo_granted, last_sudo_time, e.answers)

(* The inputs of a negotiation: the operator's answer, or none at all, and *)
(* the self-test.                                                          *)
(* A negotiation runs no command and no scan, so these are left fixed.     *)
NegotiationEnvs ==
    {Env(<<a>>, n, i, "rc0", "rc0", "rc0") :
        a \in BOOLEAN,
        n \in {"rc0", "password_required", "cmd_error", "exc"},
        i \in {"rc0", "rc1", "timeout", "exc"}}
    \cup {Silent(NoEnv)}

(* The inputs of a permission check: the answer, the self-test passing at  *)
(* once, after a password, or failing.                                     *)
CheckEnvs ==
    {Env(<<a>>, nt[1], nt[2], "rc0", "rc0", "rc0") :
        a \in BOOLEAN,
        nt \in {<<"rc0", "rc0">>, <<"password_required", "rc0">>,
                <<"password_required", "timeout">>}}

(* The inputs of an elevated command: a negotiation and the command's      *)
(* outcome without and with a credential prompt.                           *)
SudoEnvs ==
    {Env(<<a>>, nt[1], nt[2], n, i, "rc0") :
        a \in BOOLEAN,
        nt \in {<<"rc0", "rc0">>, <<"password_required", "rc0">>,
                <<"password_required", "timeout">>},
        n \in {"rc0", Hangs} \cup Stderrs,
        i \in {"rc0", "rc1", "timeout"}}
    \cup {Silent(NoEnv)}

(* The inputs of a tool call: the operator approving or refusing twice,    *)
(* sudo working or asking for a password that is not given; and, for a     *)
(* scan, each outcome of ClamAV.                                           *)
ToolEnvs ==
    {Env(<<TRUE, TRUE>>, "rc0", "rc0", "rc0", "rc0", "rc0"),
     Env(<<TRUE, TRUE>>, "password_required", "timeout", "password_required", "rc1", "rc0"),
     Env(<<FALSE, FALSE>>, "rc0", "rc0", "rc0", "rc0", "rc0")}

ScanEnvs == {Env(<<TRUE, TRUE>>, "rc0", "rc0", "rc0", "rc0", sc) : sc \in Scans \ {"rc0"}}

ToolInputs ==
    (Requests \X ToolEnvs)
    \cup ({req \in Requests : req.name = "scan_file"} \X ScanEnvs)

Grant(st) ==
    /\ sudo_granted' = st.granted
    /\ last_sudo_time' = st.last

CanReadFileCall ==
    \E file_path \in Paths, e \in CheckEnvs :
        \E r \in {CanReadFile(Here(e), now, e, file_path)} :
            /\ Grant(r.st)
            /\ obs' = Obs("can_read_file", "", file_path, r.st, r.ret, <<>>, "")
            /\ UNCHANGED <<now, ticks>>
            /\ UNCHANGED smVars

CanReadDirectoryCall ==
    \E dir_path \in {UsrBinSlash, HomeDir, Missing}, e \in CheckEnvs :
        \E r \in {CanReadDirectory(Here(e), now, e, dir_path)} :
            /\ Grant(r.st)
            /\ obs' = Obs("can_read_directory", "", dir_path, r.st, r.ret, <<>>, "")
            /\ UNCHANGED <<now, ticks>>
            /\ UNCHANGED smVars

IsRestrictedPathCall ==
    \E file_path \in Paths :
        /\ obs' = Obs("_is_restricted_path", "", file_path, Idle,
                      IsRestrictedPath(Resolve(file_path)), <<>>, "")
        /\ UNCHANGED <<sudo_granted, last_sudo_time, now, ticks>>
        /\ UNCHANGED smVars

CanWriteFileCall ==
    \E file_path \in {UsrBinLs, HomeNotes, Missing} :
        /\ obs' = Obs("can_write_file", "", file_path, Idle, CanWriteFile(file_path), <<>>, "")
        /\ UNCHANGED <<sudo_granted, last_sudo_time, now, ticks>>
        /\ UNCHANGED smVars

CanExecuteFileCall ==
    \E file_path \in {UsrBinLs, HomeNotes, Missing} :
        /\ obs' = Obs("can_execute_file", "", file_path, Idle, CanExecuteFile(file_path),
                      <<>>, "")
        /\ UNCHANGED <<sudo_granted, last_sudo_time, now, ticks>>
        /\ UNCHANGED smVars

RequestSudoAccessCall ==
    \E e \in NegotiationEnvs :
        \E r \in {RequestSudoAccess(Here(e), now, e)} :
            /\ Grant(r.st)
            /\ obs' = Obs("_request_sudo_access", "", NoPath, r.st, r.ret, <<>>,
                          IF r.st.pending THEN Blocked ELSE "")
            /\ UNCHANGED <<now, ticks>>
            /\ UNCHANGED smVars

ExecuteSudoCommandCall ==
    \E e \in SudoEnvs :
        \E r \in {ExecuteSudoCommand(Here(e), now, e, "echo")} :
            /\ Grant(r.st)
            /\ obs' = SudoObs(e, r.st, r.text, r.raised)
            /\ UNCHANGED <<now, ticks>>
            /\ UNCHANGED smVars

(* A summary that, asked while the flag is set, renews the timestamp *)
GetPermissionSummaryCallRenewing ==
    /\ obs' = Obs("get_permission_summary", "", NoPath, Idle,
                  SummarySudoActive(Here([answers |-> <<>>]), now), <<>>, "")
    /\ last_sudo_time' = IF sudo_granted THEN <<now>> ELSE last_sudo_time
    /\ UNCHANGED <<sudo_granted, now, ticks>>
    /\ UNCHANGED smVars

GetPermissionSummaryCall ==
    /\ obs' = Obs("get_permission_summary", "", NoPath, Idle,
                  SummarySudoActive(Here([answers |-> <<>>]), now), <<>>, "")
    /\ UNCHANGED <<sudo_granted, last_sudo_time, now, ticks>>
    /\ UNCHANGED smVars

(* A reset that forgets the timestamp and leaves the flag set *)
ResetSudoAccessTimestampOnly ==
    /\ last_sudo_time' = <<>>
    /\ obs' = Obs("reset_sudo_access", "", NoPath, Idle, FALSE, <<>>, "")
    /\ UNCHANGED <<sudo_granted, now, ticks>>
    /\ UNCHANGED smVars

ResetSudoAccess ==
    /\ sudo_granted' = FALSE
    /\ last_sudo_time' = <<>>
    /\ obs' = Obs("reset_sudo_access", "", NoPath, Idle, FALSE, <<>>, "")
    /\ UNCHANGED <<now, ticks>>
    /\ UNCHANGED smVars

ExecuteToolCallCall ==
    \E in \in ToolInputs :
        \E r \in {ExecuteToolCall(Here(in[2]), now, in[2],
                                  ToolCall("call_1", in[1].name, in[1].arguments))} :
            /\ Grant(r.st)
            /\ obs' = ToolObs(in[1].name, in[1].arguments, r.st, r.text, r.raised)
            /\ UNCHANGED <<now, ticks>>
            /\ UNCHANGED smVars

(* The same for a read, with the cap it was given *)
ReadObs(op, path, max_size, st, text, raised) ==
    [Obs(op, "", path, st, FALSE, text, raised) EXCEPT !.max_size = max_size]

(* The caps tried: just below and at the size of the small file, and the   *)
(* default                                                                 *)
MaxSizes == {StSize(Resolve(HomeNotes)) - 1, StSize(Resolve(HomeNotes)), max_file_size}

(* The inputs of a read: those of a tool call, and sudo asking for a       *)
(* password that is given                                                  *)
ReadEnvs ==
    ToolEnvs \cup {Env(<<TRUE, TRUE>>, "password_required", "rc0",
                       "password_required", "rc0", "rc0")}

ReadFileCall ==
    \E path \in ToolPaths, max_size \in MaxSizes, e \in ToolEnvs :
        \E r \in {ReadFile(Here(e), now, e, path, max_size)} :
            /\ Grant(r.st)
            /\ obs' = ReadObs("read_file", path, max_size, r.st, r.text, r.raised)
            /\ UNCHANGED <<now, ticks>>
            /\ UNCHANGED smVars

ReadFileWithSudoCall ==
    \E path \in {LibrarySecret, LibraryMixed, OtherPrivate, HomeNotes, HomeBig},
       max_size \in MaxSizes, e \in ReadEnvs :
        \E r \in {ReadFileWithSudo(Here(e), now, e, Resolve(path), max_size)} :
            /\ Grant(r.st)
            /\ obs' = ReadObs("_read_file_with_sudo", path, max_size, r.st, r.text,
                              r.raised)
            /\ UNCHANGED <<now, ticks>>
            /\ UNCHANGED smVars

ScanFileCall ==
    \E path \in ToolPaths, e \in ToolEnvs \cup ScanEnvs :
        \E r \in {ScanFile(Here(e), now, e, path)} :
            /\ Grant(r.st)
            /\ obs' = Obs("scan_file", "", path, r.st, FALSE, r.text, r.raised)
            /\ UNCHANGED <<now, ticks>>
            /\ UNCHANGED smVars

ScanFileWithSudoCall ==
    \E path \in {LibrarySecret, OtherPrivate, HomeNotes}, e \in ReadEnvs \cup ScanEnvs :
        \E r \in {ScanFileWithSudo(Here(e), now, e, Resolve(path))} :
            /\ Grant(r.st)
            /\ obs' = Obs("_scan_file_with_sudo", "", path, r.st, FALSE, r.text, r.raised)
            /\ UNCHANGED <<now, ticks>>
            /\ UNCHANGED smVars

---------------------------------------------------------------------------
(* _request_sudo_access as a coroutine.  It runs without interruption from *)
(* its entry to 'await self._test_sudo_access()': the check of the grant   *)
(* and Confirm.ask have no await between them.  It is suspended while the  *)
(* 'sudo -n echo test' subprocess runs, and other coroutines of the event  *)
(* loop run meanwhile.  When it resumes it records the grant or not and    *)
(* returns.                                                                *)

Tasks == 1..MaxTasks

(* at: where the coroutine is; asked: whether it asked the operator;       *)
(* ret: <<>> until it returns, then <<its result>>; stamp: the timestamp   *)
(* it recorded, <<>> if none                                               *)
Task(at, asked, ret, stamp) == [at |-> at, asked |-> asked, ret |-> ret, stamp |-> stamp]

NotCalled == Task("not called", FALSE, <<>>, <<>>)

(* entry to 'await self._test_sudo_access()', or to a return before it *)
RequestSudoAccessEnter(k) ==
    /\ tasks[k].at = "not called"
    /\ IF RequestHasSudo(Here(NoEnv), now)
       THEN tasks' = [tasks EXCEPT ![k] = Task("returned", FALSE, <<TRUE>>, <<>>)]
       ELSE \E granted \in BOOLEAN :
               tasks' = [tasks EXCEPT ![k] =
                            IF granted THEN Task("awaiting self-test", TRUE, <<>>, <<>>)
                            ELSE Task("returned", TRUE, <<FALSE>>, <<>>)]
    /\ UNCHANGED <<conversation_history, investigation_steps, iteration, pc, outcome,
                   calls, response, env, session>>
    /\ UNCHANGED pmVars

(* the self-test has returned ok: lines 138-146 *)
RequestSudoAccessResume(k) ==
    /\ tasks[k].at = "awaiting self-test"
    /\ \E ok \in BOOLEAN :
          IF ok
          THEN /\ sudo_granted' = TRUE
               /\ last_sudo_time' = <<now>>
               /\ tasks' = [tasks EXCEPT ![k] = Task("returned", TRUE, <<TRUE>>, <<now>>)]
          ELSE /\ tasks' = [tasks EXCEPT ![k] = Task("returned", TRUE, <<FALSE>>, <<>>)]
               /\ UNCHANGED <<sudo_granted, last_sudo_time>>
    /\ UNCHANGED <<conversation_history, investigation_steps, iteration, pc, outcome,
                   calls, response, env, session>>
    /\ UNCHANGED <<now, ticks, obs>>

Tick ==
    \E d \in TickSteps :
        /\ ticks < MaxTicks
        /\ ticks' = ticks + 1
        /\ now' = now + d
        /\ obs' = NoObs
        /\ UNCHANGED <<sudo_granted, last_sudo_time>>
        /\ UNCHANGED smVars

Init ==
    /\ sudo_granted = FALSE
    /\ last_sudo_time = <<>>
    /\ now = 1
    /\ ticks = 0
    /\ obs = NoObs
    /\ conversation_history = <<>>
    /\ investigation_steps = <<>>
    /\ iteration = 0
    /\ pc = "prompt"
    /\ outcome = "none"
    /\ calls = 0
    /\ response = [content |-> "", tool_calls |-> <<>>, is_complete |-> FALSE]
    /\ env = NoEnv
    /\ session = 0
    /\ tasks = [k \in Tasks |-> NotCalled]

---------------------------------------------------------------------------
(* OpenAIClient.get_response and SessionManager.investigate *)

(* The texts a reply may carry, by what _is_investigation_complete looks   *)
(* at: "" is empty, "short_found" mentions a finding in under 200          *)
(* characters, "long_found" in more, "conclusion" has a completion phrase. *)
Contents == {"", "short_found", "long_found", "conclusion"}

HasCompletionPhrase(content) == content = "conclusion"
Substantial(content) == content = "long_found"
MentionsFinding(content) == content \in {"short_found", "long_found"}

(* A completion check that takes a reply with nothing in it as the end *)
IsInvestigationCompleteWhenSilent(content, tool_calls) ==
    IF tool_calls = <<>> /\ content = "" THEN TRUE
    ELSE IF tool_calls = <<>> /\ HasCompletionPhrase(content) THEN TRUE
    ELSE IF tool_calls # <<>> THEN FALSE
    ELSE Substantial(content) /\ MentionsFinding(content)

IsInvestigationComplete(content, tool_calls) ==
    IF tool_calls = <<>> /\ HasCompletionPhrase(content) THEN TRUE
    ELSE IF tool_calls # <<>> THEN FALSE
    ELSE IF Substantial(content) /\ MentionsFinding(content) THEN TRUE
    ELSE FALSE

LLMResponse(content, tool_calls) ==
    [content |-> content, tool_calls |-> tool_calls,
     is_complete |-> IsInvestigationComplete(content, tool_calls)]

(* What a reply may ask for *)
Asked ==
    {[name |-> "list_processes", arguments |-> Args({}, NoPath)],
     [name |-> "read_file", arguments |-> Args({"path"}, LibrarySecret)],
     [name |-> "read_file", arguments |-> Args({"path"}, HomeNotes)],
     [name |-> "execute_command", arguments |-> Args({}, NoPath)]}

AskedSeqs == UNION {[1..n -> Asked] : n \in 1..MaxToolCalls}

(* The tool calls of the reply to service call number c: the ids are the   *)
(* service's, distinct in one conversation                                 *)
ToolCalls(c, asked) ==
    [k \in 1..Len(asked) |-> ToolCall(<<session, c, k>>, asked[k].name, asked[k].arguments)]

(* The replies tried.  Of the texts that neither complete nor ask for a    *)
(* tool, only the empty one, so that the histories stay few.               *)
Replies(c) ==
    {LLMResponse(content, <<>>) : content \in {"", "long_found", "conclusion"}}
    \cup {LLMResponse(content, ToolCalls(c, asked)) :
              content \in {"", "conclusion"}, asked \in AskedSeqs}

Turn(role, content, tool_call_id) ==
    [role |-> role, content |-> content, tool_call_id |-> tool_call_id,
     session |-> session]

InvestigationStep(tool_used, result, success) ==
    [action |-> tool_used, tool_used |-> tool_used, success |-> success,
     error_message |-> IF success THEN <<>> ELSE result, session |-> session]

(* tool_call.function.name: function is a dict, which has no attribute     *)
(* 'name'; only a function object of another making (name_attr) has one    *)
HasNameAttribute(function) == "name_attr" \in DOMAIN function

(* SessionManager._execute_tool_call *)
SessionExecuteToolCall(st, t, e, tool_call) ==
    Caught(ExecuteToolCall(st, t, e, tool_call), tool_call)

(* A tool call that is entered in the ledger and leaves no tool turn *)
AfterToolStepOnly(run, tool_call, r) ==
    [st |-> r.st,
     history |-> run.history,
     steps |-> Append(run.steps, InvestigationStep(tool_call.function.name, r.text,
                                                   ~StartsWithError(r.text))),
     raised |-> ""]

(* One tool call of the loop: run.st is the grant and the log, run.history *)
(* and run.steps what has been appended so far.                            *)
AfterTool(run, tool_call, r) ==
    [st |-> r.st,
     history |-> Append(run.history, Turn("tool", r.text, tool_call.id)),
     steps |-> Append(run.steps, InvestigationStep(tool_call.function.name, r.text,
                                                   ~StartsWithError(r.text))),
     raised |-> ""]

RECURSIVE RunToolCalls(_, _, _, _)
RunToolCalls(run, t, e, tool_calls) ==
    IF tool_calls = <<>> THEN run
    ELSE IF ~HasNameAttribute(Head(tool_calls).function)
    THEN [run EXCEPT !.raised = "AttributeError"]
    ELSE RunToolCalls(AfterTool(run, Head(tool_calls),
                                SessionExecuteToolCall(run.st, t, e, Head(tool_calls))),
                      t, e, Tail(tool_calls))

(* A loop body that keeps the history short by dropping its oldest turn *)
LoopBodyTrimmed(reply, st, t, e) ==
    LET run0 == [st |-> st, history |-> conversation_history,
                 steps |-> investigation_steps, raised |-> ""]
        appended == [run0 EXCEPT !.history =
                         Append(IF Len(@) >= 2 THEN Tail(@) ELSE @,
                                Turn("assistant", <<reply.content>>, <<>>))]
    IN  IF reply.tool_calls # <<>> /\ ~HasNameAttribute(reply.tool_calls[1].function)
        THEN [run |-> [run0 EXCEPT !.raised = "AttributeError"], returned |-> FALSE]
        ELSE IF reply.is_complete
        THEN [run |-> appended, returned |-> TRUE]
        ELSE [run |-> RunToolCalls(appended, t, e, reply.tool_calls), returned |-> FALSE]

(* One pass of the loop body on a reply: the log line that names the       *)
(* requested tools, the assistant turn, the completion check, the tools.   *)
LoopBody(reply, st, t, e) ==
    LET run0 == [st |-> st, history |-> conversation_history,
                 steps |-> investigation_steps, raised |-> ""]
        appended == [run0 EXCEPT !.history = Append(@, Turn("assistant",
                                                         <<reply.content>>, <<>>))]
    IN  IF reply.tool_calls # <<>> /\ ~HasNameAttribute(reply.tool_calls[1].function)
        THEN [run |-> [run0 EXCEPT !.raised = "AttributeError"], returned |-> FALSE]
        ELSE IF reply.is_complete
        THEN [run |-> appended, returned |-> TRUE]
        ELSE [run |-> RunToolCalls(appended, t, e, reply.tool_calls), returned |-> FALSE]

Investigate ==
    /\ pc = "prompt"
    /\ session < MaxSessions
    /\ session' = session + 1
    /\ conversation_history' =
           Append(conversation_history,
                  [role |-> "user", content |-> <<"<problem_description>">>,
                   tool_call_id |-> <<>>, session |-> session + 1])
    /\ iteration' = 0
    /\ calls' = 0
    /\ outcome' = "none"
    /\ pc' = "looping"
    /\ UNCHANGED <<investigation_steps, response, env, tasks>>
    /\ UNCHANGED pmVars

(* A client that called the service a second time before giving up *)
GetResponseFailsRetried ==
    /\ pc = "looping"
    /\ iteration < max_iterations
    /\ calls' = calls + 2
    /\ outcome' = "OpenAI API error"
    /\ pc' = "crashed"
    /\ UNCHANGED <<conversation_history, investigation_steps, iteration, response,
                   env, session, tasks>>
    /\ UNCHANGED pmVars

(* get_response raises: the exception leaves investigate *)
GetResponseFails ==
    /\ pc = "looping"
    /\ iteration < max_iterations
    /\ calls' = calls + 1
    /\ outcome' = "OpenAI API error"
    /\ pc' = "crashed"
    /\ UNCHANGED <<conversation_history, investigation_steps, iteration, response,
                   env, session, tasks>>
    /\ UNCHANGED pmVars

LoopIteration ==
    /\ pc = "looping"
    /\ iteration < max_iterations
    /\ \E reply \in Replies(calls + 1), e \in ToolEnvs :
         \E body \in {LoopBody(reply, Here(e), now, e)} :
            /\ calls' = calls + 1
            /\ response' = reply
            /\ env' = e
            /\ conversation_history' = body.run.history
            /\ investigation_steps' = body.run.steps
            /\ Grant(body.run.st)
            /\ IF body.run.raised # ""
               THEN /\ outcome' = body.run.raised
                    /\ pc' = "crashed"
                    /\ UNCHANGED iteration
               ELSE IF body.returned
               THEN /\ outcome' = "report"
                    /\ pc' = "prompt"
                    /\ UNCHANGED iteration
               ELSE /\ iteration' = iteration + 1
                    /\ UNCHANGED <<outcome, pc>>
            /\ UNCHANGED <<now, ticks, obs, session, tasks>>

(* The loop ends without a complete reply *)
MaxIterationsReached ==
    /\ pc = "looping"
    /\ iteration >= max_iterations
    /\ outcome' = "maximum iterations"
    /\ pc' = "prompt"
    /\ UNCHANGED <<conversation_history, investigation_steps, iteration, calls,
                   response, env, session, tasks>>
    /\ UNCHANGED pmVars

(* SessionManager._format_final_report, with the tables taken as rendered: *)
(* one row per step of the ledger, with its tool and its status mark       *)
FormatFinalReport(steps, content) ==
    ReportText("# AutoAV Investigation Report",
               [i \in 1..Len(steps) |-> [tool |-> steps[i].tool_used,
                                         status |-> steps[i].success]],
               content)

(* what investigate returns when the loop ends at max_iterations *)
MaxIterationsText ==
    ReportText("Investigation reached maximum iterations. Please try a more specific description.",
               <<>>, "")

(* The ledgers tried: up to MaxSteps steps, each a failed read or a        *)
(* successful process listing                                              *)
StepKinds ==
    {InvestigationStep("read_file", <<"Error: Permission denied reading '", "<path>">>, FALSE),
     InvestigationStep("list_processes", <<"Found ", "<processes>">>, TRUE)}

Ledgers == UNION {[1..n -> StepKinds] : n \in 0..MaxSteps}

ReportObs(op, steps, report) ==
    [Obs(op, "", NoPath, Idle, FALSE, <<>>, "") EXCEPT !.ledger = steps, !.report = report]

FormatFinalReportCall ==
    \E steps \in Ledgers, content \in {"long_found", "conclusion"} :
        /\ obs' = ReportObs("_format_final_report", steps, FormatFinalReport(steps, content))
        /\ UNCHANGED <<sudo_granted, last_sudo_time, now, ticks>>
        /\ UNCHANGED smVars

MaxIterationsReturn ==
    \E steps \in Ledgers :
        /\ obs' = ReportObs("max_iterations_return", steps, MaxIterationsText)
        /\ UNCHANGED <<sudo_granted, last_sudo_time, now, ticks>>
        /\ UNCHANGED smVars

(* The loop with a client whose tool calls answer function.name: the       *)
(* replies ask for a process listing or for a read that fails, or          *)
(* complete the investigation; obs holds the report investigate returns.   *)
NamedAsked ==
    {[name |-> "list_processes", arguments |-> Args({}, NoPath)],
     [name |-> "read_file", arguments |-> Args({"path"}, LibrarySecret)]}

NamedToolCalls(c, asked) ==
    [k \in 1..Len(asked) |->
        NamedToolCall(<<session, c, k>>, asked[k].name, asked[k].arguments)]

NamedReplies(c) ==
    {LLMResponse("conclusion", <<>>)}
    \cup {LLMResponse("", NamedToolCalls(c, asked)) :
              asked \in UNION {[1..n -> NamedAsked] : n \in 1..MaxToolCalls}}

LoopIterationNamed ==
    /\ pc = "looping"
    /\ iteration < max_iterations
    /\ \E reply \in NamedReplies(calls + 1) :
         /\ Len(investigation_steps) + Len(reply.tool_calls) <= MaxLedger
         /\ \E body \in {LoopBody(reply, Here(NoEnv), now, NoEnv)} :
               /\ calls' = calls + 1
               /\ response' = reply
               /\ env' = NoEnv
               /\ conversation_history' = body.run.history
               /\ investigation_steps' = body.run.steps
               /\ Grant(body.run.st)
               /\ IF body.run.raised # ""
                  THEN /\ outcome' = body.run.raised
                       /\ pc' = "crashed"
                       /\ obs' = NoObs
                       /\ UNCHANGED iteration
                  ELSE IF body.returned
                  THEN /\ outcome' = "report"
                       /\ pc' = "prompt"
                       /\ obs' = ReportObs("investigate", body.run.steps,
                                           FormatFinalReport(body.run.steps, reply.content))
                       /\ UNCHANGED iteration
                  ELSE /\ iteration' = iteration + 1
                       /\ obs' = NoObs
                       /\ UNCHANGED <<outcome, pc>>
               /\ UNCHANGED <<now, ticks, session, tasks>>

---------------------------------------------------------------------------
(* api/av_api.py: _is_restricted_path, over RESTRICTED_DIRS *)
ApiIsRestrictedPath(names) ==
    \E restricted_dir \in {"/System", "/Library", "/bin", "/sbin", "/usr"} :
        restricted_dir \in Elems(Parts(names))

---------------------------------------------------------------------------
(* api/av_api.py and tools/av_api.py: the command-execution function.      *)
(* Each module has its own static list.                                    *)

AVAILABLE_COMMANDS(module) ==
    IF module = "api"
    THEN
    {"cd", "ls", "cat", "stat", "ps", "netstat", "ifconfig", "route",
     "dig", "ping", "traceroute", "whoami", "who", "last", "w",
     "free", "df", "clamscan", "clamdscan", "freshclam", "grep"}
    ELSE
    {"ls", "cat", "head", "tail", "less", "more", "file", "stat",
     "find", "locate", "which", "whereis", "du", "df", "mount", "wc",
     "grep", "egrep", "fgrep", "awk", "sed", "sort", "uniq", "ps",
     "top", "htop", "pgrep", "lsof", "fuser", "netstat", "ss",
     "ifconfig", "ip", "route", "arp", "ping", "traceroute",
     "tracert", "nslookup", "dig", "host", "whois", "telnet", "nc",
     "nmap", "curl", "wget", "ssh", "uname", "hostname", "whoami",
     "id", "who", "w", "last", "lastlog", "uptime", "date", "free",
     "vmstat", "iostat", "sar", "dmesg", "journalctl", "systemctl",
     "service", "passwd", "chage", "groups", "getent", "crontab",
     "at", "lsattr", "chattr", "getfacl", "rpm", "dpkg", "apt", "yum",
     "dnf", "pacman", "brew", "pip", "npm", "clamscan", "clamdscan",
     "freshclam", "chkrootkit", "rkhunter", "lynis", "tripwire",
     "cut", "tr", "tee", "iotop", "iftop", "nethogs", "glances",
     "atop", "powertop", "strings", "hexdump", "xxd", "od", "md5sum",
     "sha1sum", "sha256sum", "objdump", "nm", "readelf", "ldd",
     "strace", "ltrace", "gdb", "valgrind", "paste", "join", "comm",
     "diff", "nl", "fold", "fmt", "pr", "column", "cd", "pwd",
     "pushd", "popd", "dirs", "tree", "dir", "env", "set", "unset",
     "export", "alias", "type", "hash", "history", "fc", "jobs", "bg",
     "fg", "wait", "time", "timeout", "echo", "printf", "test", "[",
     "[[", "true", "false", "yes", "no", "sleep", "watch", "seq",
     "factor", "bc", "dc", "expr", "let", "man", "info", "help",
     "apropos", "whatis", "ldconfig", "locale", "localedef", "iconv",
     "gettext"}

(* A test that looks at the first word of the command, in lower case *)
CommandNotAvailableByFirstWord(module, command) ==
    (IF command \in {"LS", "ls -l", " ls"} THEN "ls" ELSE command)
        \notin AVAILABLE_COMMANDS(module)

(* command not in AVAILABLE_COMMANDS: list membership, by string equality *)
CommandNotAvailable(module, command) == command \notin AVAILABLE_COMMANDS(module)

(* _execute_command: subprocess.run(command, capture_output=True,          *)
(* text=True) on the list, without shell=True; a non-zero exit reaches     *)
(* 'raise f"Error: ..."', which raises TypeError, a str being no exception *)
ExecuteCommand(command, rc) ==
    [runs |-> <<[argv |-> command, shell |-> FALSE]>>,
     raised |-> IF rc # "rc0" THEN "TypeError" ELSE "",
     text |-> IF rc # "rc0" THEN <<>> ELSE <<"<stdout>">>]

(* api_execute_command(command, command_args) *)
ApiExecuteCommand(module, command, command_args, rc) ==
    IF CommandNotAvailable(module, command)
    THEN [runs |-> <<>>, raised |-> "TypeError", text |-> <<>>]
    ELSE ExecuteCommand(<<command>> \o (IF command_args = <<>> THEN <<>> ELSE command_args[1]),
                        rc)

(* The commands and argument lists tried: names of the lists, variants of  *)
(* a name in case, space, path and with an argument appended, names of     *)
(* neither list, and an argument that holds shell syntax                   *)
Commands == {"ls", "LS", " ls", "/bin/ls", "ls -l", "echo", "head", "rm", "sudo", ""}

CommandArgs == {<<>>, << <<>> >>, << <<"-l">> >>, << <<"-l", "; rm -rf /">> >>}

ApiExecuteCommandCall ==
    \E module \in {"api", "tools"}, command \in Commands, command_args \in CommandArgs,
       rc \in {"rc0", "rc1"} :
        \E r \in {ApiExecuteCommand(module, command, command_args, rc)} :
            /\ obs' = [Obs("api_execute_command", command, NoPath, Idle, FALSE,
                           r.text, r.raised)
                          EXCEPT !.api = ApiCall(module, command, command_args, r.runs)]
            /\ UNCHANGED <<sudo_granted, last_sudo_time, now, ticks>>
            /\ UNCHANGED smVars

(* main.py: the interactive session runs one investigation after another   *)
Next ==
    \/ Investigate
    \/ GetResponseFails
    \/ LoopIteration
    \/ MaxIterationsReached

Spec == Init /\ [][Next]_vars

(* test_sudo_handling.py, test_basic_functionality.py: the permission      *)
(* manager on its own                                                      *)
PermissionNext ==
    \/ CanReadFileCall
    \/ CanReadDirectoryCall
    \/ IsRestrictedPathCall
    \/ CanWriteFileCall
    \/ CanExecuteFileCall
    \/ RequestSudoAccessCall
    \/ ExecuteSudoCommandCall
    \/ GetPermissionSummaryCall
    \/ ResetSudoAccess
    \/ Tick

SpecPermissions == Init /\ [][PermissionNext]_vars

(* The dispatcher on its own: tool calls, with negotiations and time       *)
(* passing between them                                                    *)
ToolsNext ==
    \/ ExecuteToolCallCall
    \/ RequestSudoAccessCall
    \/ Tick

SpecTools == Init /\ [][ToolsNext]_vars

(* The file inspector's read and scan operations called on their own,      *)
(* with a grant negotiated or not and time passing                         *)
ReadsNext ==
    \/ ReadFileCall
    \/ ReadFileWithSudoCall
    \/ ScanFileCall
    \/ ScanFileWithSudoCall
    \/ RequestSudoAccessCall
    \/ Tick

SpecReads == Init /\ [][ReadsNext]_vars

(* The two return values of investigate, built on a given ledger *)
ReportsNext ==
    \/ FormatFinalReportCall
    \/ MaxIterationsReturn
    \/ Tick

SpecReports == Init /\ [][ReportsNext]_vars

(* investigate with a client whose tool calls answer function.name, so     *)
(* that the tool loop runs                                                 *)
LedgerNext ==
    \/ Investigate
    \/ LoopIterationNamed

SpecLedger == Init /\ [][LedgerNext]_vars

(* Elevation checks started as coroutines of one event loop, on one        *)
(* PermissionManager                                                       *)
ConcurrentNext ==
    \/ \E k \in Tasks : RequestSudoAccessEnter(k)
    \/ \E k \in Tasks : RequestSudoAccessResume(k)
    \/ Tick

SpecConcurrent == Init /\ [][ConcurrentNext]_vars

(* The command-execution function called on its own *)
CommandsNext ==
    \/ ApiExecuteCommandCall
    \/ Tick

SpecCommands == Init /\ [][CommandsNext]_vars

---------------------------------------------------------------------------
(* Properties *)

Last(s) == s[Len(s)]

(* The grant (granted, last) is active at time t *)
ActiveGrant(granted, last, t) ==
    granted /\ last # <<>> /\ t - last[1] < sudo_timeout

(* The path lies, once resolved, under one of the restricted directories *)
InsideRestrictedDir(file_path) ==
    LET names == Resolve(file_path)
    IN  names # <<>> /\ names[1] \in {"System", "Library", "bin", "sbin", "usr"}

(* No segment of the resolved path is the name of a restricted directory *)
NoRestrictedSegment(file_path) ==
    \A i \in 1..Len(Resolve(file_path)) :
        Resolve(file_path)[i] \notin {"System", "Library", "bin", "sbin", "usr"}

(* C1: investigate never makes more than max_iterations service calls, and *)
(* an investigation in which every call returned a reply and no reply was  *)
(* treated as complete ends, after exactly max_iterations calls, by        *)
(* returning the "maximum iterations" outcome.                             *)
C1_CapReachedOutcome ==
    /\ calls <= max_iterations
    /\ (session > 0 /\ pc # "looping" /\ outcome \notin {"report", "OpenAI API error"})
          => (outcome = "maximum iterations" /\ pc = "prompt" /\ calls = max_iterations)

(* C2: once a reply that carries n tool requests has been processed, the   *)
(* history ends with the assistant turn of that reply followed by exactly  *)
(* n tool turns, the k-th carrying the id of the k-th request.             *)
C2_ToolTurnsAnswerRequests ==
    response.tool_calls # <<>> =>
        LET n == Len(response.tool_calls)
            h == conversation_history
        IN  /\ Len(h) >= n + 1
            /\ h[Len(h) - n].role = "assistant"
            /\ \A k \in 1..n :
                  /\ h[Len(h) - n + k].role = "tool"
                  /\ h[Len(h) - n + k].tool_call_id = response.tool_calls[k].id

(* C3: a tool call whose name is not exactly a key of the registry, a case *)
(* or whitespace variant of a registered name included, returns the        *)
(* unknown-tool error and enters no inspection operation; a call that does *)
(* enter an operation enters the one registered under its name.            *)
C3_UnknownToolInvokesNothing ==
    obs.op = "execute_tool_call" =>
        /\ obs.name \notin tools =>
              /\ obs.text = <<"Error: Unknown tool '", obs.name>>
              /\ obs.invoked = <<>>
              /\ obs.started = <<>>
              /\ obs.prompts = <<>>
        /\ obs.invoked # <<>> => (obs.name \in tools /\ Head(obs.invoked) = obs.name)

C3_Witness ==
    /\ obs.op = "execute_tool_call"
    /\ obs.name = " read_file"
    /\ obs.path = HomeNotes
    /\ obs.text = <<"Error: Unknown tool '", " read_file">>

(* C4: can_write_file and can_execute_file return false for every path and *)
(* every state of the grant, ask the operator nothing and leave the grant  *)
(* as it was.                                                              *)
C4_WriteAndExecuteDenied ==
    obs.op \in {"can_write_file", "can_execute_file"} =>
        /\ obs.retb = FALSE
        /\ obs.prompts = <<>>
        /\ sudo_granted = obs.granted_before
        /\ last_sudo_time = obs.last_before

C4_Witness ==
    /\ obs.op = "can_write_file"
    /\ obs.path = HomeNotes
    /\ OsWritable(Resolve(HomeNotes))
    /\ ActiveGrant(sudo_granted, last_sudo_time, now)
    /\ obs.retb = FALSE

(* C5: _is_restricted_path returns true for every path that resolves to a  *)
(* location inside a restricted directory, and false for every path none   *)
(* of whose segments is the name of a restricted directory.                *)
C5_RestrictedPathsClassified ==
    obs.op = "_is_restricted_path" =>
        /\ InsideRestrictedDir(obs.path) => obs.retb
        /\ NoRestrictedSegment(obs.path) => ~obs.retb

(* C6: a grant recorded at time T is active at a check made at time t     *)
(* exactly when t - T < sudo_timeout, and the three places that consult it *)
(* agree: _request_sudo_access and execute_sudo_command ask the operator   *)
(* nothing exactly when the grant is active, and get_permission_summary    *)
(* reports it active exactly then.                                         *)
C6_GrantActiveUntilTimeout ==
    /\ obs.op \in {"_request_sudo_access", "execute_sudo_command"} =>
          ((obs.prompts = <<>>) <=> ActiveGrant(obs.granted_before, obs.last_before, now))
    /\ obs.op = "get_permission_summary" =>
          (obs.retb <=> ActiveGrant(obs.granted_before, obs.last_before, now))

C6_Witness ==
    /\ obs.op = "execute_sudo_command"
    /\ obs.granted_before
    /\ obs.last_before # <<>>
    /\ now - obs.last_before[1] = sudo_timeout
    /\ obs.prompts # <<>>

(* C7: an operation records a grant (flag set, timestamp taken) only when  *)
(* the operator approved and the self-test then succeeded; after a refusal *)
(* or a failed self-test the grant is as it was, and not active.           *)
C7_GrantNeedsApprovalAndSelfTest ==
    obs.op # "none" =>
        /\ (sudo_granted /\ (~obs.granted_before \/ last_sudo_time # obs.last_before))
              => /\ obs.prompts # <<>>
                 /\ Last(obs.prompts) = TRUE
                 /\ obs.tests # <<>>
                 /\ Last(obs.tests).ok
                 /\ Last(obs.tests).n = "rc0" \/ Last(obs.tests).i = "rc0"
        /\ (obs.prompts # <<>>
            /\ (~Last(obs.prompts) \/ obs.tests = <<>> \/ ~Last(obs.tests).ok))
              => /\ sudo_granted = obs.granted_before
                 /\ last_sudo_time = obs.last_before
                 /\ ~ActiveGrant(sudo_granted, last_sudo_time, now)

C7_Witness ==
    /\ obs.op = "_request_sudo_access"
    /\ ~obs.granted_before
    /\ obs.prompts = <<TRUE>>
    /\ obs.tests # <<>>
    /\ Last(obs.tests).n = "password_required"
    /\ sudo_granted
    /\ last_sudo_time = <<now>>

(* C8: every elevated command execute_sudo_command starts, starts while    *)
(* the grant is active; when the operator refuses, no command is started   *)
(* and the access-denied error is returned.                                *)
C8_ElevatedCommandsNeedActiveGrant ==
    obs.op = "execute_sudo_command" =>
        /\ \A i \in 1..Len(obs.started) :
              ActiveGrant(obs.started[i].granted, obs.started[i].last, obs.started[i].at)
        /\ (obs.prompts # <<>> /\ ~Last(obs.prompts) /\ ~obs.pending)
              => /\ obs.started = <<>>
                 /\ obs.text = <<"Error: Sudo access denied by user">>
        /\ obs.pending => obs.started = <<>>

C8_Witness ==
    /\ obs.op = "execute_sudo_command"
    /\ obs.granted_before
    /\ ~ActiveGrant(obs.granted_before, obs.last_before, now)
    /\ obs.prompts = <<TRUE>>
    /\ Len(obs.started) = 2

(* C9: when a reply asks to read a file under a restricted directory and   *)
(* the operator refuses elevation, the investigation goes on and the       *)
(* history holds a tool turn for that request with the permission-denied   *)
(* text.                                                                   *)
C9_RefusalBecomesToolTurn ==
    \A k \in 1..Len(response.tool_calls) :
        (/\ response.tool_calls[k].function.name = "read_file"
         /\ InsideRestrictedDir(response.tool_calls[k].arguments.path)
         /\ env.answers # <<>>
         /\ ~Head(env.answers))
          => /\ pc # "crashed"
             /\ \E i \in 1..Len(conversation_history) :
                   /\ conversation_history[i].role = "tool"
                   /\ conversation_history[i].tool_call_id = response.tool_calls[k].id
                   /\ Head(conversation_history[i].content)
                          = "Error: Permission denied reading '"

(* C10: whatever the replies ask for, an investigation in which every      *)
(* service call returned a reply ends by returning a report or the         *)
(* "maximum iterations" text: no exception leaves investigate.             *)
C10_InvestigateAlwaysReturns ==
    (session > 0 /\ pc # "looping" /\ outcome # "OpenAI API error")
        => (pc = "prompt" /\ outcome \in {"report", "maximum iterations"})

(* C11: the step in which a service call fails makes that one call, leaves *)
(* the history and the ledger as they were and ends the investigation with *)
(* the reasoning-service error; after it no call is made and nothing is    *)
(* appended.                                                               *)
C11_ServiceFailureAborts ==
    [][/\ (outcome' = "OpenAI API error" /\ outcome # "OpenAI API error")
            => /\ calls' = calls + 1
               /\ conversation_history' = conversation_history
               /\ investigation_steps' = investigation_steps
               /\ pc' = "crashed"
       /\ outcome = "OpenAI API error"
            => /\ calls' = calls
               /\ conversation_history' = conversation_history
               /\ investigation_steps' = investigation_steps]_vars

C11_Witness ==
    /\ outcome = "OpenAI API error"
    /\ pc = "crashed"
    /\ calls = 3
    /\ Len(conversation_history) = 3
    /\ Last(conversation_history).role = "assistant"

(* C12: investigate returns its report only on a reply that is complete   *)
(* and carries no tool request; a reply that carries tool requests is not  *)
(* treated as complete: its tools are all executed, one ledger step each,  *)
(* and the investigation goes on.                                          *)
C12_CompletedOnlyWithoutToolRequests ==
    /\ (session > 0 /\ outcome = "report")
          => (response.is_complete /\ response.tool_calls = <<>>)
    /\ response.tool_calls # <<>>
          => LET n == Len(response.tool_calls)
                 m == Len(investigation_steps)
             IN  /\ outcome # "report"
                 /\ pc # "crashed"
                 /\ m >= n
                 /\ \A k \in 1..n : investigation_steps[m - n + k].tool_used
                                        = response.tool_calls[k].function.name

IsPrefix(a, b) == Len(a) <= Len(b) /\ SubSeq(b, 1, Len(a)) = a

(* The assistant turns of investigation s among the first i turns *)
AssistantTurnsBefore(s, i) ==
    {j \in 1..(i - 1) : /\ conversation_history[j].role = "assistant"
                        /\ conversation_history[j].session = s}

C14_InvalidArgumentsRejected ==
    (/\ obs.op = "execute_tool_call"
     /\ obs.name \in tools
     /\ (~(Required(obs.name) \subseteq obs.keys) \/ obs.mistyped # {}))
        => /\ StartsWithError(obs.text)
           /\ obs.invoked = <<>>
           /\ obs.started = <<>>
           /\ obs.prompts = <<>>

(* The file obs.path names, resolved, and the commands the call started *)
ObsFile == Resolve(obs.path)

ObsCommands == {obs.started[i].cmd : i \in 1..Len(obs.started)}

(* C15: read_file on a readable text file returns the whole content when   *)
(* the file's size is at most the cap and the too-large error with the     *)
(* measured size when it is above; _read_file_with_sudo starts 'cat' only  *)
(* for a file whose size is at most the cap, and returns no content for a  *)
(* larger one.                                                             *)
C15_ReadFileSizeCap ==
    /\ (/\ obs.op = "read_file"
        /\ IsFile(ObsFile)
        /\ OsReadable(ObsFile)
        /\ IsTextMime(MimeType(ObsFile)))
          => IF StSize(ObsFile) > obs.max_size
             THEN obs.text = <<"Error: File size (", "<size>">>
             ELSE obs.text = <<"File: ", "<content>">>
    /\ (obs.op = "_read_file_with_sudo" /\ IsFile(ObsFile))
          => /\ "cat" \in ObsCommands => StSize(ObsFile) <= obs.max_size
             /\ StSize(ObsFile) > obs.max_size
                   => (obs.raised # "" \/ StartsWithError(obs.text))
             /\ (obs.raised = "" /\ Head(obs.text) = "File: ")
                   => StSize(ObsFile) <= obs.max_size

C15_Witness ==
    /\ obs.op = "_read_file_with_sudo"
    /\ obs.path = HomeNotes
    /\ obs.max_size = StSize(ObsFile) - 1
    /\ obs.text = <<"Error: File size (", "<size>">>
    /\ ObsCommands = {"stat"}

(* C16: for a file whose MIME type is outside the text, JSON and XML       *)
(* allow-list, neither read_file nor _read_file_with_sudo puts the file's  *)
(* content into the result.                                                *)
C16_BinaryContentWithheld ==
    (/\ obs.op \in {"read_file", "_read_file_with_sudo"}
     /\ IsFile(ObsFile)
     /\ ~IsTextMime(MimeType(ObsFile)))
        => "<content>" \notin Elems(obs.text)

IsErrorReport(text) == \E i \in 1..Len(text) : text[i] \in ErrorLiterals

(* C18: once a reply that carries tool requests has been processed, no     *)
(* exception has left the loop, and every request has its tool turn and    *)
(* its step in the ledger, the step's success flag being false exactly     *)
(* when the text of the turn is an error report.                           *)
C18_ToolErrorsRecovered ==
    \A k \in 1..Len(response.tool_calls) :
        /\ pc # "crashed"
        /\ \E i \in 1..Len(conversation_history), j \in 1..Len(investigation_steps) :
              /\ conversation_history[i].role = "tool"
              /\ conversation_history[i].tool_call_id = response.tool_calls[k].id
              /\ investigation_steps[j].session = session
              /\ investigation_steps[j].tool_used = response.tool_calls[k].function.name
              /\ investigation_steps[j].success
                     <=> ~IsErrorReport(conversation_history[i].content)

(* C19: scan_file on a path that does not exist, or that is not a regular  *)
(* file, returns an error text, raises nothing, and on its way enters no   *)
(* scanner, starts no elevated command and no sudo test, and asks the      *)
(* operator nothing; the grant stays as it was.                            *)
C19_ScanOfMissingPathStartsNothing ==
    (/\ obs.op = "execute_tool_call"
     /\ obs.name = "scan_file"
     /\ "path" \in obs.keys
     /\ (~Exists(ObsFile) \/ ~IsFile(ObsFile)))
        => /\ StartsWithError(obs.text)
           /\ obs.raised = ""
           /\ obs.invoked = <<"scan_file">>
           /\ obs.started = <<>>
           /\ obs.tests = <<>>
           /\ obs.prompts = <<>>
           /\ sudo_granted = obs.granted_before

C19_Witness ==
    /\ obs.op = "execute_tool_call"
    /\ obs.name = "scan_file"
    /\ obs.path = Missing
    /\ obs.text = <<"Error: File '", "<path>">>
    /\ obs.invoked = <<"scan_file">>

(* C20: while an investigation runs, the history that its service calls    *)
(* send holds only turns of that investigation.                            *)
C20_HistoryOfOneInvestigation ==
    pc = "looping" =>
        \A i \in 1..Len(conversation_history) : conversation_history[i].session = session

(* C21: every subprocess that execute_sudo_command starts is waited for    *)
(* with a timeout, and the operation always returns: it neither waits for  *)
(* ever nor lets the timeout of a subprocess escape as an exception.       *)
C21_SubprocessesTimeOut ==
    obs.op = "execute_sudo_command" =>
        /\ \A i \in 1..Len(obs.started) : obs.started[i].timeout # <<>>
        /\ obs.raised \notin {Blocked, "TimeoutExpired"}

(* C22: read_file or scan_file on a file inside a restricted directory     *)
(* that the user cannot read starts an elevated command and returns its    *)
(* result, unless the operator was asked and refused or the self-test      *)
(* failed: it never returns the permission-denied text without that.       *)
C22_RestrictedTargetsGoElevated ==
    (/\ obs.op = "execute_tool_call"
     /\ obs.name \in {"read_file", "scan_file"}
     /\ "path" \in obs.keys
     /\ obs.mistyped = {}
     /\ InsideRestrictedDir(obs.path)
     /\ IsFile(ObsFile)
     /\ ~OsReadable(ObsFile))
        => \/ /\ obs.prompts # <<>>
              /\ (~Last(obs.prompts) \/ (obs.tests # <<>> /\ ~Last(obs.tests).ok))
           \/ /\ obs.started # <<>>
              /\ Head(obs.text) \notin {"Error: Permission denied reading '",
                                        "Error: Permission denied scanning '"}

(* C23: in execute_sudo_command the interactive 'sudo <command>' is only   *)
(* started after a 'sudo -n <command>' whose failure said that a           *)
(* credential is required; when 'sudo -n <command>' fails for another      *)
(* reason, with a grant already active or just negotiated, the result is   *)
(* an error text.                                                          *)
C23_FallbackOnlyForCredential ==
    obs.op = "execute_sudo_command" =>
        /\ \A i \in 1..Len(obs.started) :
              obs.started[i].mode = "sudo"
                 => /\ i > 1
                    /\ obs.started[i - 1].mode = "sudo -n"
                    /\ obs.env.cmd_n = "password_required"
        /\ (obs.started # <<>> /\ obs.env.cmd_n \in {"sudo_cmd_not_found", "cmd_error"})
              => StartsWithError(obs.text)

(* C24: after a negotiation in which the operator approved and the         *)
(* self-test failed, the flag and the timestamp are what they were before  *)
(* it, no grant is active, and the operation that asked reports the        *)
(* refusal: _request_sudo_access returns false, execute_sudo_command       *)
(* returns the access-denied text and starts no command.                   *)
C24_FailedSelfTestLeavesNoGrant ==
    (/\ obs.op \in {"_request_sudo_access", "execute_sudo_command"}
     /\ obs.prompts # <<>>
     /\ Last(obs.prompts)
     /\ obs.tests # <<>>
     /\ ~Last(obs.tests).ok)
        => /\ sudo_granted = obs.granted_before
           /\ last_sudo_time = obs.last_before
           /\ ~ActiveGrant(sudo_granted, last_sudo_time, now)
           /\ (obs.op = "_request_sudo_access" => ~obs.retb)
           /\ (obs.op = "execute_sudo_command"
                  => /\ obs.text = <<"Error: Sudo access denied by user">>
                     /\ obs.started = <<>>
                     /\ obs.raised = "")

C24_Witness ==
    /\ obs.op = "execute_sudo_command"
    /\ obs.prompts = <<TRUE>>
    /\ obs.tests # <<>>
    /\ ~Last(obs.tests).ok
    /\ obs.granted_before
    /\ obs.text = <<"Error: Sudo access denied by user">>

(* C25: api_execute_command, in either module, runs a subprocess only for  *)
(* a command that is, as it stands, a member of that module's              *)
(* AVAILABLE_COMMANDS; for any other command it raises and runs nothing;   *)
(* a subprocess it runs gets the command and then each argument as one     *)
(* element of its argument list, and no shell.                             *)
C25_OnlyListedCommandsRun ==
    obs.op = "api_execute_command" =>
        /\ Len(obs.api.runs) <= 1
        /\ obs.api.command \notin AVAILABLE_COMMANDS(obs.api.module)
              => (obs.api.runs = <<>> /\ obs.raised # "")
        /\ \A i \in 1..Len(obs.api.runs) :
              /\ obs.api.command \in AVAILABLE_COMMANDS(obs.api.module)
              /\ ~obs.api.runs[i].shell
              /\ obs.api.runs[i].argv[1] = obs.api.command
              /\ SubSeq(obs.api.runs[i].argv, 2, Len(obs.api.runs[i].argv))
                    = IF obs.api.command_args = <<>> THEN <<>> ELSE obs.api.command_args[1]

C25_Witness ==
    /\ obs.op = "api_execute_command"
    /\ obs.api.module = "tools"
    /\ obs.api.command = "ls"
    /\ obs.api.command_args = << <<"-l", "; rm -rf /">> >>
    /\ obs.api.runs = <<[argv |-> <<"ls", "-l", "; rm -rf /">>, shell |-> FALSE]>>
    /\ obs.raised = ""

CheckSucceeded(o) ==
    \/ o.op = "_request_sudo_access" /\ o.retb
    \/ o.op = "execute_sudo_command" /\ o.started # <<>>

(* C27: every step that is an elevation check (_request_sudo_access or     *)
(* execute_sudo_command) at a time when the grant is active succeeds,      *)
(* asks the operator nothing and leaves the grant as it is; at a time when *)
(* no grant is active (never granted, reset or expired) it asks the        *)
(* operator, and succeeds only on an approval followed by a passed         *)
(* self-test, with a grant recorded at the time of the check.              *)
C27_ChecksFollowTheGrant ==
    [][obs'.op \in {"_request_sudo_access", "execute_sudo_command"} =>
          IF ActiveGrant(sudo_granted, last_sudo_time, now')
          THEN /\ obs'.prompts = <<>>
               /\ CheckSucceeded(obs')
               /\ sudo_granted' = sudo_granted
               /\ last_sudo_time' = last_sudo_time
          ELSE /\ obs'.prompts # <<>>
               /\ CheckSucceeded(obs')
                     => /\ Last(obs'.prompts)
                        /\ obs'.tests # <<>>
                        /\ Last(obs'.tests).ok
                        /\ sudo_granted'
                        /\ last_sudo_time' = <<now'>>]_vars

C27_Witness ==
    /\ obs.op = "_request_sudo_access"
    /\ obs.granted_before
    /\ obs.last_before # <<>>
    /\ now - obs.last_before[1] >= sudo_timeout
    /\ obs.prompts = <<TRUE>>
    /\ obs.retb
    /\ last_sudo_time = <<now>>

(* C28: the step that receives a reply with empty content and no tool     *)
(* requests makes one service call, counts one iteration, appends one      *)
(* assistant turn with the empty content and nothing else, and leaves the  *)
(* investigation running with no outcome; at the cap the investigation     *)
(* then ends with the "maximum iterations" outcome.                        *)
C28_EmptyReplyCountsOneIteration ==
    /\ [][(/\ pc = "looping"
           /\ calls' = calls + 1
           /\ outcome' # "OpenAI API error"
           /\ response'.content = ""
           /\ response'.tool_calls = <<>>)
             => /\ ~response'.is_complete
                /\ iteration' = iteration + 1
                /\ conversation_history'
                      = Append(conversation_history, Turn("assistant", <<"">>, <<>>))
                /\ investigation_steps' = investigation_steps
                /\ pc' = "looping"
                /\ outcome' = "none"]_vars
    /\ [][(pc = "looping" /\ iteration >= max_iterations)
             => (pc' = "prompt" /\ outcome' = "maximum iterations")]_vars

C28_Witness ==
    /\ session = 1
    /\ pc = "prompt"
    /\ outcome = "maximum iterations"
    /\ calls = max_iterations
    /\ Len(conversation_history) = max_iterations + 1
    /\ \A i \in 2..Len(conversation_history) :
          /\ conversation_history[i].role = "assistant"
          /\ conversation_history[i].content = <<"">>

(* The step changes the grant *)
GrantChanges == sudo_granted' # sudo_granted \/ last_sudo_time' # last_sudo_time

(* The step ran a negotiation that recorded a grant: the operator approved, *)
(* the self-test passed, the flag is set and the timestamp is the time of  *)
(* the step                                                                *)
NegotiationGranted ==
    /\ obs'.prompts # <<>>
    /\ Last(obs'.prompts)
    /\ obs'.tests # <<>>
    /\ Last(obs'.tests).ok
    /\ sudo_granted'
    /\ last_sudo_time' = <<now'>>

(* C29, as the specification states it: a step changes sudo_granted or     *)
(* last_sudo_time only by a negotiation of _request_sudo_access.           *)
C29_OnlyNegotiationChangesGrant ==
    [][GrantChanges => NegotiationGranted]_vars

(* C29, amended: a step changes sudo_granted or last_sudo_time only by a   *)
(* negotiation of _request_sudo_access, which sets them, or by             *)
(* reset_sudo_access, which clears both; every other operation leaves      *)
(* both as they were.                                                      *)
C29_NegotiationOrResetChangesGrant ==
    [][GrantChanges =>
          \/ NegotiationGranted
          \/ /\ obs'.op = "reset_sudo_access"
             /\ ~sudo_granted'
             /\ last_sudo_time' = <<>>]_vars

C29_Witness ==
    /\ obs.op = "reset_sudo_access"
    /\ obs.granted_before
    /\ obs.last_before # <<>>
    /\ ~sudo_granted
    /\ last_sudo_time = <<>>

(* C30: of the elevation checks running on one PermissionManager at most  *)
(* one is inside a negotiation at any time (so no two of them have both    *)
(* found no active grant and both asked the operator), and no step         *)
(* replaces the timestamp of a grant that is active.                       *)
C30_NegotiationIsCriticalSection ==
    /\ [](\A j, k \in Tasks :
             (tasks[j].at = "awaiting self-test" /\ tasks[k].at = "awaiting self-test")
                => j = k)
    /\ [][ActiveGrant(sudo_granted, last_sudo_time, now')
             => last_sudo_time' = last_sudo_time]_vars


(* The tools that take no target path *)
NoPathTools ==
    {"list_processes", "check_startup_items", "check_browser_extensions",
     "get_network_connections"}

(* C31: a tool call of list_processes, check_startup_items,                *)
(* check_browser_extensions or get_network_connections, in any state of    *)
(* the grant, asks the operator nothing, runs no self-test, starts no      *)
(* elevated command and leaves the flag and the timestamp as they were;    *)
(* and a tool call that asks the operator or changes the grant is a call   *)
(* of a path-bearing tool whose path lies in a restricted directory.       *)
C31_NoPathToolsNeverNegotiate ==
    obs.op = "execute_tool_call" =>
        /\ obs.name \in NoPathTools =>
              /\ obs.prompts = <<>>
              /\ obs.tests = <<>>
              /\ obs.started = <<>>
              /\ sudo_granted = obs.granted_before
              /\ last_sudo_time = obs.last_before
        /\ (\/ obs.prompts # <<>>
            \/ sudo_granted # obs.granted_before
            \/ last_sudo_time # obs.last_before)
              => /\ obs.name \in tools \ NoPathTools
                 /\ InsideRestrictedDir(obs.path)

(* check_startup_items has run while a grant was active and left it alone *)
C31_Witness ==
    /\ obs.op = "execute_tool_call"
    /\ obs.name = "check_startup_items"
    /\ obs.invoked = <<"check_startup_items">>
    /\ obs.text = <<"Startup Items Analysis:">>
    /\ obs.granted_before
    /\ ActiveGrant(sudo_granted, last_sudo_time, now)
    /\ obs.prompts = <<>>


(* C32: a negotiation or an elevated command never stays at the approval   *)
(* prompt; every command that may ask for a credential is run with the     *)
(* 30 s timeout; when the credential wait of the self-test elapses the     *)
(* negotiation fails and the grant is what it was; and when a credential   *)
(* wait elapses in an elevated command the command returns an error text.  *)
C32_OperatorWaitsBounded ==
    obs.op \in {"_request_sudo_access", "execute_sudo_command"} =>
        /\ ~obs.pending
        /\ \A i \in 1..Len(obs.started) :
              obs.started[i].mode = "sudo" => obs.started[i].timeout = <<30>>
        /\ (obs.tests # <<>> /\ HasElevationMarker(Last(obs.tests).n)
                             /\ Last(obs.tests).i = "timeout")
              => /\ ~Last(obs.tests).ok
                 /\ ~obs.retb
                 /\ sudo_granted = obs.granted_before
                 /\ last_sudo_time = obs.last_before
                 /\ obs.op = "execute_sudo_command"
                       => obs.raised = "" /\ StartsWithError(obs.text)
        /\ (/\ obs.op = "execute_sudo_command"
            /\ obs.env.cmd_i = "timeout"
            /\ \E i \in 1..Len(obs.started) : obs.started[i].mode = "sudo")
              => obs.raised = "" /\ StartsWithError(obs.text)


(* The turns of the given role that the current investigation has appended *)
TurnsOfSession(history, role) ==
    Len(SelectSeq(history, LAMBDA turn : turn.role = role /\ turn.session = session))

(* C33: a step of the loop that receives a reply which does not complete   *)
(* the investigation executes every tool request of the reply (one tool    *)
(* turn each) and then adds exactly one to the iteration count, whatever    *)
(* the number of requests; and while the loop runs the count is the number *)
(* of assistant turns the investigation has appended.                      *)
C33_IterationCountsReplies ==
    /\ [](pc = "looping" => iteration = TurnsOfSession(conversation_history, "assistant"))
    /\ [][(/\ pc = "looping"
           /\ calls' = calls + 1
           /\ outcome' # "OpenAI API error"
           /\ ~response'.is_complete)
             => /\ iteration' = iteration + 1
                /\ Len(conversation_history') =
                      Len(conversation_history) + 1 + Len(response'.tool_calls)]_vars


(* The steps of the ledger that the current investigation has recorded *)
StepsOfSession(steps) == SelectSeq(steps, LAMBDA step : step.session = session)

C35_FlagImpliesTimestamp ==
    /\ [](sudo_granted => last_sudo_time # <<>>)
    /\ [][(sudo_granted' # sudo_granted \/ last_sudo_time' # last_sudo_time)
            => \/ /\ sudo_granted'
                  /\ last_sudo_time' = <<now'>>
                  /\ obs'.prompts # <<>> /\ Last(obs'.prompts)
                  /\ obs'.tests # <<>> /\ Last(obs'.tests).ok
               \/ /\ obs'.op = "reset_sudo_access"
                  /\ ~sudo_granted'
                  /\ last_sudo_time' = <<>>]_vars
    /\ [][(/\ obs'.op \in {"_request_sudo_access", "execute_sudo_command"}
           /\ obs'.prompts # <<>>
           /\ (~Last(obs'.prompts) \/ obs'.tests = <<>> \/ ~Last(obs'.tests).ok))
            => /\ sudo_granted' = sudo_granted
               /\ last_sudo_time' = last_sudo_time]_vars

(* A grant that had expired is negotiated again by an elevated command:    *)
(* the flag stays set and the timestamp is the time of the new grant       *)
C35_Witness ==
    /\ obs.op = "execute_sudo_command"
    /\ obs.granted_before
    /\ obs.last_before # <<>>
    /\ obs.prompts = <<TRUE>>
    /\ Last(obs.tests).ok
    /\ sudo_granted
    /\ last_sudo_time = <<now>>
    /\ last_sudo_time # obs.last_before


(* C36: a step made while the grant is active, other than a reset, leaves  *)
(* the timestamp as it is, whatever the step does; a step that moves the   *)
(* timestamp to a new time is a successful negotiation made when no grant  *)
(* was active; and a check made sudo_timeout or more after the timestamp   *)
(* finds the grant expired and asks the operator, however many operations  *)
(* used the grant in between.                                              *)
C36_UseNeverExtendsGrant ==
    /\ [][(ActiveGrant(sudo_granted, last_sudo_time, now') /\ obs'.op # "reset_sudo_access")
            => /\ last_sudo_time' = last_sudo_time
               /\ sudo_granted' = sudo_granted]_vars
    /\ [][(last_sudo_time' # last_sudo_time /\ last_sudo_time' # <<>>)
            => /\ ~ActiveGrant(sudo_granted, last_sudo_time, now')
               /\ obs'.op \in {"_request_sudo_access", "execute_sudo_command"}
               /\ obs'.prompts # <<>> /\ Last(obs'.prompts)
               /\ obs'.tests # <<>> /\ Last(obs'.tests).ok
               /\ last_sudo_time' = <<now'>>]_vars
    /\ []((/\ obs.op \in {"_request_sudo_access", "execute_sudo_command"}
           /\ obs.granted_before
           /\ obs.last_before # <<>>)
             => ((now - obs.last_before[1] >= sudo_timeout) <=> obs.prompts # <<>>))

(* An elevated command has run on a grant taken some time before, which    *)
(* still bears the time of its negotiation                                 *)
C36_Witness ==
    /\ obs.op = "execute_sudo_command"
    /\ obs.granted_before
    /\ obs.last_before # <<>>
    /\ now > obs.last_before[1]
    /\ ActiveGrant(obs.granted_before, obs.last_before, now)
    /\ obs.prompts = <<>>
    /\ obs.started # <<>>
    /\ last_sudo_time = obs.last_before


C38_ClassifiersAgree ==
    /\ \A path \in Paths : \A names \in {path.segs, Resolve(path)} :
          /\ InspectorIsRestrictedPath(names) = IsRestrictedPath(names)
          /\ ApiIsRestrictedPath(names) = IsRestrictedPath(names)
    /\ obs.op \in {"read_file", "scan_file"} =>
          /\ InspectorIsRestrictedPath(Resolve(obs.path)) = IsRestrictedPath(Resolve(obs.path))
          /\ obs.started # <<>> => IsRestrictedPath(Resolve(obs.path))
          /\ (obs.text # <<>> /\ Head(obs.text) \in {"Error: Permission denied reading '",
                                                      "Error: Permission denied scanning '"})
                => ~IsRestrictedPath(Resolve(obs.path))

(* read_file on a file the user may not read: can_read_file's classifier   *)
(* and the inspector's both take it as unrestricted, and the plain         *)
(* permission-denied text is returned                                      *)
C38_Witness ==
    /\ obs.op = "read_file"
    /\ obs.path = LibrarySecret
    /\ ~IsRestrictedPath(Resolve(obs.path))
    /\ ~InspectorIsRestrictedPath(Resolve(obs.path))
    /\ obs.text = <<"Error: Permission denied reading '", "<path>">>
    /\ obs.started = <<>>
    /\ obs.prompts = <<>>

===========================================================================
